---- MODULE Spec2Model ----
(***************************************************************************)
(* A model of the prediction-market trading bot (src/quant/bot).           *)
(*                                                                         *)
(* The module holds one set of variables and several specifications, one   *)
(* per subsystem; each specification moves its own variables and leaves    *)
(* the others at their initial value:                                      *)
(*   Spec          run.py main_loop and the APScheduler jobs of agent.py   *)
(*   SpecResolve   agent.py check_resolutions and its outcome counter      *)
(*   SpecSelect    learning/model_selector.py and the forecast pipeline's  *)
(*                 use of the stored model weights                         *)
(*   SpecEnsemble  intelligence/forecaster.py parsing, ensemble.combine,   *)
(*                 entropy.confidence_tier and the Forecast rows           *)
(*   SpecPrompt    learning/prompt_evolver.py tournament rounds            *)
(*   SpecTrade     trading/executor.py maybe_trade under two concurrent    *)
(*                 run_forecasts executions                                *)
(*                                                                         *)
(* Python floats are modelled as exact rationals <<n, d>> (d > 0, lowest   *)
(* terms); binary rounding error is outside the model.                     *)
(***************************************************************************)
EXTENDS Integers, Sequences, FiniteSets, TLC

-----------------------------------------------------------------------------
(* Exact rational arithmetic.                                              *)

Abs(x) == IF x < 0 THEN -x ELSE x

RECURSIVE GCD(_, _)
GCD(a, b) == IF b = 0 THEN a ELSE GCD(b, a % b)

R(n, d) ==
    LET s == IF d < 0 THEN -1 ELSE 1
        g == GCD(Abs(n), Abs(d))
    IN  IF n = 0 THEN <<0, 1>> ELSE <<(s * n) \div g, (s * d) \div g>>

Zero == <<0, 1>>
One == <<1, 1>>
Int2R(k) == <<k, 1>>

RAdd(a, b) == R(a[1] * b[2] + b[1] * a[2], a[2] * b[2])
RSub(a, b) == R(a[1] * b[2] - b[1] * a[2], a[2] * b[2])
RMul(a, b) == R(a[1] * b[1], a[2] * b[2])
RDiv(a, b) == R(a[1] * b[2], a[2] * b[1])
RNeg(a) == <<-a[1], a[2]>>
RLt(a, b) == a[1] * b[2] < b[1] * a[2]
RLe(a, b) == a[1] * b[2] <= b[1] * a[2]
RMin(a, b) == IF RLe(a, b) THEN a ELSE b
RMax(a, b) == IF RLe(a, b) THEN b ELSE a

(* x rounded to the nearest integer, ties to even: Python's round().       *)
RRound(x) ==
    LET n == x[1]
        d == x[2]
        f == n \div d
        r == n - f * d
    IN  IF 2 * r < d THEN f
        ELSE IF 2 * r > d THEN f + 1
        ELSE IF f % 2 = 0 THEN f ELSE f + 1

RECURSIVE RSumSeq(_)
RSumSeq(s) == IF s = <<>> THEN Zero ELSE RAdd(Head(s), RSumSeq(Tail(s)))

-----------------------------------------------------------------------------
VARIABLES
    (* Spec: main_loop and the scheduler *)
    mainPc,        \* where run.py main_loop stands
    schedRunning,  \* scheduler.start() has been called and not shut down
    inst,          \* job id -> instances the scheduler's executor has in flight
    lastFire,      \* job id -> what the last trigger fire of the job did
    lastRaised,    \* history: the job whose body raised most recently, or "none"
    schedSawError  \* history: an exception left a job the executor had submitted

VARIABLES
    (* SpecResolve: agent.py check_resolutions *)
    resPc,         \* where the current check_resolutions run stands
    outcomeCount,  \* agent.py _last_outcome_count
    resAdded,      \* history: the counter right after this run's addition, -1 before
    resCalls,      \* history: the learning functions this run has invoked, in order
    resRaised      \* history: this run's body raised (and the job caught it)

VARIABLES
    (* SpecSelect: model_selector.py and the pipeline's use of the weights *)
    mwStore,         \* table model_weights: model -> weight, or Absent
    selPc,           \* where the current run_model_selection stands
    selStats,        \* its 30-day outcomes per model: NoSamples or the mean Brier
    selW,            \* its local dict `weights`: model -> weight, or Absent
    selIdx,          \* position of its current loop in RosterOrder
    selRuns,         \* runs started so far
    pipePc,          \* where the current _process_market stands
    pipeActive,      \* models of weight > 0 in the model_weights it loaded
    pipeCalled,      \* models whose provider it called
    pipeFc,          \* models that returned a forecast
    pipeRows,        \* models it inserted a Forecast row for
    pipeContrib,     \* models whose forecast entered the ensemble sums
    pipeZeroAtStart, \* history: models stored at weight 0 when it started
    pipeZeroAtLoad   \* history: models stored at weight 0 when it loaded the weights

schedVars == <<mainPc, schedRunning, inst, lastFire, lastRaised, schedSawError>>
resVars == <<resPc, outcomeCount, resAdded, resCalls, resRaised>>

selVars == <<mwStore, selPc, selStats, selW, selIdx, selRuns>>
pipeVars == <<pipePc, pipeActive, pipeCalled, pipeFc, pipeRows, pipeContrib,
              pipeZeroAtStart, pipeZeroAtLoad>>

VARIABLES
    (* SpecEnsemble: one market's forecasts, their ensemble and its rows *)
    ensPc,         \* where the pipeline stands: steps 6, 7, 8 of _process_market
    ensText,       \* model -> the text its provider returned, or NoResponse
    ensLogprobs,   \* model -> the token logprobs its provider returned
    ensMW,         \* the model_weights dict loaded at step 5
    ensDW,         \* model -> domain_weight of (domain, model), or Absent
    ensTau,        \* domain_thresholds.get(domain): a threshold, or Absent
    ensForecasts,  \* the list forecaster.forecast returned
    ensOut,        \* what ensemble.combine returned
    ensRows        \* the Forecast rows inserted

ensVars == <<ensPc, ensText, ensLogprobs, ensMW, ensDW, ensTau, ensForecasts,
             ensOut, ensRows>>

VARIABLES
    (* SpecPrompt: the prompt tournament *)
    promptTable,   \* table prompt_experiments: version -> [domain, active]
    promptPc,      \* where the current run_prompt_tournament round stands
    promptDomain,  \* its domain argument
    promptRounds   \* run_prompt_tournament rounds completed so far

promptVars == <<promptTable, promptPc, promptDomain, promptRounds>>

VARIABLES
    (* SpecTrade: maybe_trade under two run_forecasts executions *)
    trPrice,         \* table markets: market id -> stored YES price
    trForecasted,    \* market id -> a Forecast row of the last hours exists
    trPaper,         \* config.PAPER_MODE
    trOpenElsewhere, \* unresolved markets outside Markets that hold a trade
    trades,          \* table trades, in insertion order
    cash,            \* portfolio_state.cash (VIRTUAL_BANKROLL before the first write)
    run,             \* runner -> where its run_forecasts stands, and its locals
    trDecisions,     \* history: per Trade row, the values its maybe_trade evaluated
    cashStart,       \* history: cash when the process started
    trRaised         \* history: <<runner, market>> of the live orders that raised

tradeVars == <<trPrice, trForecasted, trPaper, trOpenElsewhere, trades, cash,
               run, trDecisions, cashStart,
               trRaised>>

VARIABLES
    (* SpecForecastRun: one run_forecasts fire and its pipelines *)
    frPc,          \* where the run_forecasts fire stands
    frSnapshot,    \* the list get_unforecasted_markets returned
    frIdx,         \* position in frSnapshot of the market being processed
    frNext,        \* position in PipelineSteps of that pipeline's next step
    frSteps,       \* history: market -> the pipeline steps run for it, in order
    frRaisedAt,    \* history: market -> the step that raised, or "none"
    frOrder        \* history: the markets whose pipeline was started, in order

frVars == <<frPc, frSnapshot, frIdx, frNext, frSteps, frRaisedAt, frOrder>>

VARIABLES
    (* SpecSemaphore: forecaster._semaphore and the _forecast_one tasks *)
    semCreated,    \* forecaster._semaphore is not None
    semValue,      \* its free permits
    semTask        \* task -> where the _forecast_one coroutine stands

semVars == <<semCreated, semValue, semTask>>

VARIABLES
    (* SpecCalibration, SpecThreshold: table calibration_state and its writers *)
    calibration_state, \* model -> the row (domain, model) of the one domain modelled
    calPc,             \* where the current run_calibration stands
    adRun              \* runner -> where its run_threshold_adaptation stands, and its locals

calVars == <<calibration_state, calPc>>
adaptVars == <<adRun>>

VARIABLES
    szPrice,        \* market.market_price handed to the sizing functions
    szProb,         \* intent.ensemble_prob
    szOut           \* what best_side_and_edge and kelly_fraction computed

sizeVars == <<szPrice, szProb, szOut>>

VARIABLES
    markets,        \* the markets table: id -> row
    forecastRows,      \* the forecastRows table: id -> row
    outcomes,       \* the outcomes table, in insertion order
    venue,          \* what the venues know about each market
    trk,            \* check_new_outcomes: position and locals
    trkCounted,     \* sum of the new_count values check_resolutions added
    trkRuns,        \* check_resolutions runs finished
    trkDropped,     \* history: markets the tracker skipped at line 50-51
    scanPending     \* markets a scan has fetched and not yet upserted

storeVars ==
    <<markets, forecastRows, outcomes, venue, trk, trkCounted, trkRuns,
      trkDropped, scanPending>>

VARIABLES
    upCalls         \* history: the upsert_market calls made, per market id

upsertVars == <<upCalls>>

VARIABLES
    scanStore,      \* the markets table the scanner writes: id -> row
    dsScore,        \* fuzz.token_sort_ratio of each cross-venue pair
    ds,             \* scan_all_markets: position and locals
    dsScans         \* scans finished

dedupVars == <<scanStore, dsScore, ds, dsScans>>

VARIABLES
    pick            \* get_active_prompt: position, argument and result

pickVars == <<pick>>

VARIABLES
    rd              \* history: the table and the statistics of the last round

roundVars == <<rd>>

VARIABLES
    rlClock,        \* time.monotonic(), in twentieths of a second
    _last_request,  \* KalshiClient._last_request
    rlPc,           \* per coroutine: position in _get
    rlWake,         \* per coroutine: deadline of its asyncio.sleep
    rlSent          \* monotonic times at which requests passed the gate

rlVars == <<rlClock, _last_request, rlPc, rlWake, rlSent>>

VARIABLES
    expStats,       \* prompt_experiments: n_trials, n_wins and mean_brier per version
    sdCalls         \* seed_initial_prompts calls so far

seedVars == <<expStats, sdCalls>>

VARIABLES
    fcList          \* run_forecasts: the rows of its snapshot still to process

fcVars == <<fcList>>

VARIABLES
    unCash,         \* portfolio cash read by maybe_trade
    unOut           \* what maybe_trade did with the intent

unitVars == <<unCash, unOut>>

VARIABLES
    rfTodo,         \* refresh_prices: markets whose _update has not finished
    rfBefore,       \* history: market_price of each market when the refresh began
    rfFailed        \* history: markets whose venue fetch failed in this refresh

refreshVars == <<rfTodo, rfBefore, rfFailed>>

VARIABLES
    calRun,         \* history: the groups of the current run_calibration and the table it found
    calLatest       \* history: model -> brier_score and domain_weight last written by run_calibration

calRowVars == <<calRun, calLatest>>

vars ==
    <<schedVars, resVars, selVars, pipeVars, ensVars, promptVars,
      tradeVars, frVars, semVars, calVars, adaptVars,
      sizeVars,
      storeVars,
      upsertVars,
      dedupVars,
      pickVars,
      roundVars,
      rlVars,
      seedVars,
      fcVars,
      unitVars,
      refreshVars,
      calRowVars>>

(* What the actions of one subsystem leave unchanged.                      *)
exceptSched ==
    <<resVars, selVars, pipeVars, ensVars, promptVars, tradeVars,
      frVars, semVars, calVars, adaptVars,
      sizeVars,
      storeVars,
      upsertVars,
      dedupVars,
      pickVars,
      roundVars,
      rlVars,
      seedVars,
      fcVars,
      unitVars,
      refreshVars,
      calRowVars>>
exceptRes ==
    <<schedVars, selVars, pipeVars, ensVars, promptVars, tradeVars,
      frVars, semVars, calVars, adaptVars,
      sizeVars,
      storeVars,
      upsertVars,
      dedupVars,
      pickVars,
      roundVars,
      rlVars,
      seedVars,
      fcVars,
      unitVars,
      refreshVars,
      calRowVars>>
exceptSel ==
    <<schedVars, resVars, pipeVars, ensVars, promptVars, tradeVars,
      frVars, semVars, calVars, adaptVars,
      sizeVars,
      storeVars,
      upsertVars,
      dedupVars,
      pickVars,
      roundVars,
      rlVars,
      seedVars,
      fcVars,
      unitVars,
      refreshVars,
      calRowVars>>
exceptPipe ==
    <<schedVars, resVars, selVars, ensVars, promptVars, tradeVars,
      frVars, semVars, calVars, adaptVars,
      sizeVars,
      storeVars,
      upsertVars,
      dedupVars,
      pickVars,
      roundVars,
      rlVars,
      seedVars,
      fcVars,
      unitVars,
      refreshVars,
      calRowVars>>
exceptEns ==
    <<schedVars, resVars, selVars, pipeVars, promptVars, tradeVars,
      frVars, semVars, calVars, adaptVars,
      sizeVars,
      storeVars,
      upsertVars,
      dedupVars,
      pickVars,
      roundVars,
      rlVars,
      seedVars,
      fcVars,
      unitVars,
      refreshVars,
      calRowVars>>
exceptPrompt ==
    <<schedVars, resVars, selVars, pipeVars, ensVars, tradeVars,
      frVars, semVars, calVars, adaptVars,
      sizeVars,
      storeVars,
      upsertVars,
      dedupVars,
      pickVars,
      roundVars,
      rlVars,
      seedVars,
      fcVars,
      unitVars,
      refreshVars,
      calRowVars>>
exceptTrade ==
    <<schedVars, resVars, selVars, pipeVars, ensVars, promptVars,
      frVars, semVars, calVars, adaptVars,
      sizeVars,
      storeVars,
      upsertVars,
      dedupVars,
      pickVars,
      roundVars,
      rlVars,
      seedVars,
      fcVars,
      unitVars,
      refreshVars,
      calRowVars>>
exceptFr ==
    <<schedVars, resVars, selVars, pipeVars, ensVars, promptVars,
      tradeVars, semVars, calVars, adaptVars,
      sizeVars,
      storeVars,
      upsertVars,
      dedupVars,
      pickVars,
      roundVars,
      rlVars,
      seedVars,
      fcVars,
      unitVars,
      refreshVars,
      calRowVars>>
exceptSem ==
    <<schedVars, resVars, selVars, pipeVars, ensVars, promptVars,
      tradeVars, frVars, calVars, adaptVars,
      sizeVars,
      storeVars,
      upsertVars,
      dedupVars,
      pickVars,
      roundVars,
      rlVars,
      seedVars,
      fcVars,
      unitVars,
      refreshVars,
      calRowVars>>
exceptCal ==
    <<schedVars, resVars, selVars, pipeVars, ensVars, promptVars,
      tradeVars, frVars, semVars,
      sizeVars,
      storeVars,
      upsertVars,
      dedupVars,
      pickVars,
      roundVars,
      rlVars,
      seedVars,
      fcVars,
      unitVars,
      refreshVars,
      calRowVars>>

exceptSize ==
    <<schedVars, resVars, selVars, pipeVars, ensVars, promptVars,
      tradeVars, frVars, semVars, calVars, adaptVars,
      storeVars,
      upsertVars,
      dedupVars,
      pickVars,
      roundVars,
      rlVars,
      seedVars,
      fcVars,
      unitVars,
      refreshVars,
      calRowVars>>
exceptStore ==
    <<schedVars, resVars, selVars, pipeVars, ensVars, promptVars,
      tradeVars, frVars, semVars, calVars, adaptVars, sizeVars,
      upsertVars,
      dedupVars,
      pickVars,
      roundVars,
      rlVars,
      seedVars,
      fcVars,
      unitVars,
      refreshVars,
      calRowVars>>
exceptUpsert ==
    <<schedVars, resVars, selVars, pipeVars, ensVars, promptVars,
      tradeVars, frVars, semVars, calVars, adaptVars, sizeVars,
      dedupVars,
      pickVars,
      roundVars,
      rlVars,
      seedVars,
      fcVars,
      unitVars,
      refreshVars,
      calRowVars>>
exceptDedup ==
    <<schedVars, resVars, selVars, pipeVars, ensVars, promptVars,
      tradeVars, frVars, semVars, calVars, adaptVars, sizeVars,
      storeVars, upsertVars,
      pickVars,
      roundVars,
      rlVars,
      seedVars,
      fcVars,
      unitVars,
      refreshVars,
      calRowVars>>
exceptPick ==
    <<schedVars, resVars, selVars, pipeVars, ensVars, promptVars,
      tradeVars, frVars, semVars, calVars, adaptVars, sizeVars,
      storeVars, upsertVars, dedupVars,
      roundVars,
      rlVars,
      seedVars,
      fcVars,
      unitVars,
      refreshVars,
      calRowVars>>
exceptRound ==
    <<schedVars, resVars, selVars, pipeVars, ensVars,
      tradeVars, frVars, semVars, calVars, adaptVars, sizeVars,
      storeVars, upsertVars, dedupVars, pickVars,
      rlVars,
      seedVars,
      fcVars,
      unitVars,
      refreshVars,
      calRowVars>>
exceptRl ==
    <<schedVars, resVars, selVars, pipeVars, ensVars, promptVars,
      tradeVars, frVars, semVars, calVars, adaptVars, sizeVars,
      storeVars, upsertVars, dedupVars, pickVars, roundVars,
      seedVars,
      fcVars,
      unitVars,
      refreshVars,
      calRowVars>>
exceptSeed ==
    <<schedVars, resVars, selVars, pipeVars, ensVars,
      tradeVars, frVars, semVars, calVars, adaptVars, sizeVars,
      storeVars, upsertVars, dedupVars, pickVars, roundVars, rlVars,
      fcVars,
      unitVars,
      refreshVars,
      calRowVars>>
exceptFc ==
    <<schedVars, resVars, selVars, pipeVars, ensVars, promptVars,
      tradeVars, frVars, semVars, calVars, adaptVars, sizeVars,
      upsertVars, dedupVars, pickVars, roundVars, rlVars, seedVars,
      unitVars,
      refreshVars,
      calRowVars>>
exceptUnit ==
    <<schedVars, resVars, selVars, pipeVars, ensVars, promptVars,
      tradeVars, frVars, semVars, calVars, adaptVars, sizeVars,
      storeVars, upsertVars, dedupVars, pickVars, roundVars, rlVars,
      seedVars, fcVars,
      refreshVars,
      calRowVars>>
exceptRefresh ==
    <<schedVars, resVars, selVars, pipeVars, ensVars, promptVars,
      tradeVars, frVars, semVars, calVars, adaptVars, sizeVars,
      upsertVars, dedupVars, pickVars, roundVars, rlVars,
      seedVars, fcVars, unitVars,
      calRowVars>>
exceptCalRows ==
    <<schedVars, resVars, selVars, pipeVars, ensVars, promptVars,
      tradeVars, frVars, semVars, sizeVars,
      storeVars, upsertVars, dedupVars, pickVars, roundVars, rlVars,
      seedVars, fcVars, unitVars, refreshVars>>
-----------------------------------------------------------------------------
(* agent.py create_scheduler: six jobs, each max_instances=1.              *)

Jobs == {"scan_markets", "update_prices", "check_resolutions",
         "run_forecasts", "self_improvement", "prompt_tournament"}

max_instances == 1

SchedQuiet ==
    /\ mainPc = "init_db"
    /\ schedRunning = FALSE
    /\ inst = [j \in Jobs |-> 0]
    /\ lastFire = [j \in Jobs |-> "none"]
    /\ lastRaised = "none"
    /\ schedSawError = FALSE

(* The job whose coroutine main_loop itself is awaiting, if any.           *)
DirectCall(j) ==
    \/ mainPc = "scan" /\ j = "scan_markets"
    \/ mainPc = "forecast" /\ j = "run_forecasts"

(* Executions of job j in flight: the executor's plus main_loop's own.     *)
InFlight(j) == inst[j] + (IF DirectCall(j) THEN 1 ELSE 0)

(* run.py main_loop, line 126: await db.init_db()                          *)
InitDb ==
    /\ mainPc = "init_db"
    /\ mainPc' = "load_state"
    /\ UNCHANGED <<schedRunning, inst, lastFire, lastRaised, schedSawError>>

(* run.py main_loop, line 129: await load_state()                          *)
LoadState ==
    /\ mainPc = "load_state"
    /\ mainPc' = "start"
    /\ UNCHANGED <<schedRunning, inst, lastFire, lastRaised, schedSawError>>

(* run.py main_loop, lines 131-136: create_scheduler(), scheduler.start(), *)
(* then scan_markets() is awaited; no suspension point lies between them.  *)
StartScheduler ==
    /\ mainPc = "start"
    /\ schedRunning' = TRUE
    /\ mainPc' = "scan"
    /\ UNCHANGED <<inst, lastFire, lastRaised, schedSawError>>

(* run.py main_loop, lines 136-137: scan_markets() returns and             *)
(* run_forecasts() is awaited.                                             *)
DirectScanDone ==
    /\ mainPc = "scan"
    /\ mainPc' = "forecast"
    /\ UNCHANGED <<schedRunning, inst, lastFire, lastRaised, schedSawError>>

(* run.py main_loop, lines 137-142: run_forecasts() returns; idle loop.    *)
DirectForecastDone ==
    /\ mainPc = "forecast"
    /\ mainPc' = "sleep"
    /\ UNCHANGED <<schedRunning, inst, lastFire, lastRaised, schedSawError>>

(* A trigger of job j fires (agent.py lines 290-331). The executor starts  *)
(* the job unless max_instances of it are already in flight; it counts     *)
(* only the instances it submitted itself.                                 *)
SubmitJob(j) ==
    IF inst[j] < max_instances
    THEN /\ inst' = [inst EXCEPT ![j] = @ + 1]
         /\ lastFire' = [lastFire EXCEPT ![j] = "ran"]
    ELSE /\ lastFire' = [lastFire EXCEPT ![j] = "skipped"]
         /\ UNCHANGED inst

Fire(j) ==
    /\ schedRunning
    /\ SubmitJob(j)
    /\ UNCHANGED <<mainPc, schedRunning, lastRaised, schedSawError>>

(* The job coroutine of a scheduler-submitted instance returns.            *)
JobDone(j) ==
    /\ inst[j] > 0
    /\ inst' = [inst EXCEPT ![j] = @ - 1]
    /\ UNCHANGED <<mainPc, schedRunning, lastFire, lastRaised, schedSawError>>

(* Mutant of CaughtInJob: no job has an except clause.                     *)
CaughtInJob_Nowhere(j) == FALSE

(* agent.py lines 36-41, 51-55, 69-82, 100-109, 238-247, 257-264: the      *)
(* whole body of each job function, its imports included, stands in        *)
(* try/except Exception, whose handler logs and returns.                   *)
CaughtInJob(j) == j \in Jobs

(* The body of a scheduler-submitted instance of job j raises. When the    *)
(* job catches it the coroutine returns normally; otherwise the exception  *)
(* leaves the coroutine and reaches the executor.                          *)
JobRaises(j) ==
    /\ inst[j] > 0
    /\ inst' = [inst EXCEPT ![j] = @ - 1]
    /\ lastRaised' = j
    /\ schedSawError' = (schedSawError \/ ~CaughtInJob(j))
    /\ UNCHANGED <<mainPc, schedRunning, lastFire>>

(* The body of the scan_markets() or run_forecasts() that main_loop awaits *)
(* raises (run.py lines 136-137). When the job catches it main_loop goes   *)
(* on; otherwise the exception leaves main_loop and the process ends.      *)
DirectRaises(j) ==
    /\ DirectCall(j)
    /\ lastRaised' = j
    /\ IF CaughtInJob(j)
       THEN /\ mainPc' = IF mainPc = "scan" THEN "forecast" ELSE "sleep"
            /\ UNCHANGED schedRunning
       ELSE /\ mainPc' = "crashed"
            /\ schedRunning' = FALSE
    /\ UNCHANGED <<inst, lastFire, schedSawError>>

(* run.py main_loop, lines 143-145: KeyboardInterrupt/SystemExit in the    *)
(* idle loop; scheduler.shutdown().                                        *)
Shutdown ==
    /\ mainPc = "sleep"
    /\ mainPc' = "stopped"
    /\ schedRunning' = FALSE
    /\ UNCHANGED <<inst, lastFire, lastRaised, schedSawError>>

-----------------------------------------------------------------------------
(* agent.py check_resolutions, lines 62-90. The job runs under the         *)
(* scheduler with max_instances=1 (or once, from once_run), so its runs    *)
(* follow one another; nothing else reads or writes the counter.           *)

LEARNING_BATCH_SIZE == 10

MaxNewOutcomes == 12

ResQuiet ==
    /\ resPc = "idle"
    /\ outcomeCount = 0
    /\ resAdded = -1
    /\ resCalls = <<>>
    /\ resRaised = FALSE

(* Mutant of BatchReached: the batch must be exceeded, not reached.        *)
BatchReached_Strict(c) == c > LEARNING_BATCH_SIZE

(* agent.py line 77: if _last_outcome_count >= LEARNING_BATCH_SIZE         *)
BatchReached(c) == c >= LEARNING_BATCH_SIZE

(* The job starts (lines 65-70) and awaits check_new_outcomes().           *)
ResStart ==
    /\ resPc = "idle"
    /\ resPc' = "tracker"
    /\ resAdded' = -1
    /\ resCalls' = <<>>
    /\ resRaised' = FALSE
    /\ UNCHANGED outcomeCount

(* Lines 71-79: check_new_outcomes() returns new_count, the counter is     *)
(* raised by it, and on a full batch _run_incremental_calibration() is     *)
(* entered, which awaits run_calibration() (lines 85-89).                  *)
ResTrackerReturns(n) ==
    /\ resPc = "tracker"
    /\ outcomeCount + n <= LEARNING_BATCH_SIZE + MaxNewOutcomes
    /\ outcomeCount' = outcomeCount + n
    /\ resAdded' = outcomeCount + n
    /\ IF BatchReached(outcomeCount + n)
       THEN /\ resPc' = "run_calibration"
            /\ resCalls' = Append(resCalls, "run_calibration")
       ELSE /\ resPc' = "done"
            /\ UNCHANGED resCalls
    /\ UNCHANGED resRaised

(* Lines 81-82: check_new_outcomes() raises; the except clause logs.       *)
ResTrackerRaises ==
    /\ resPc = "tracker"
    /\ resPc' = "done"
    /\ resRaised' = TRUE
    /\ UNCHANGED <<outcomeCount, resAdded, resCalls>>

(* Lines 89-90: run_calibration() returns; run_threshold_adaptation() is   *)
(* awaited.                                                                *)
ResCalibrationReturns ==
    /\ resPc = "run_calibration"
    /\ resPc' = "run_threshold_adaptation"
    /\ resCalls' = Append(resCalls, "run_threshold_adaptation")
    /\ UNCHANGED <<outcomeCount, resAdded, resRaised>>

(* Lines 79-80: _run_incremental_calibration() returns; the counter is     *)
(* reset.                                                                  *)
ResThresholdReturns ==
    /\ resPc = "run_threshold_adaptation"
    /\ resPc' = "done"
    /\ outcomeCount' = 0
    /\ UNCHANGED <<resAdded, resCalls, resRaised>>

(* Lines 81-82: run_calibration() or run_threshold_adaptation() raises;    *)
(* the exception leaves _run_incremental_calibration() and line 80 is not  *)
(* reached.                                                                *)
ResLearningRaises ==
    /\ resPc \in {"run_calibration", "run_threshold_adaptation"}
    /\ resPc' = "done"
    /\ resRaised' = TRUE
    /\ UNCHANGED <<outcomeCount, resAdded, resCalls>>

(* The job coroutine has returned; the scheduler may fire it again.        *)
ResEnd ==
    /\ resPc = "done"
    /\ resPc' = "idle"
    /\ UNCHANGED <<outcomeCount, resAdded, resCalls, resRaised>>

-----------------------------------------------------------------------------
(* config.py MODELS (lines 42-61) and learning/model_selector.py.          *)

Models == {"claude-sonnet-4-6", "gpt-4.1", "deepseek-chat"}

(* model_selector.py line 36 builds a set of the roster ids and lines 39   *)
(* and 71 iterate it; the iteration order of a set is fixed within a       *)
(* process. The model takes the order of config.MODELS: each model's       *)
(* weight depends on its own outcomes and stored weight only.              *)
RosterOrder == <<"claude-sonnet-4-6", "gpt-4.1", "deepseek-chat">>

(* config.py lines 47, 53, 59: the configured weights.                     *)
ConfigWeight(m) == IF m = "deepseek-chat" THEN R(8, 10) ELSE One

(* config.py line 114                                                      *)
MODEL_KILL_BRIER == R(28, 100)

(* Not a number (a missing row, Python's None): denominator 0.            *)
Absent == <<0, 0>>
NoSamples == <<0, 0>>

(* Mean Brier scores a model's 30-day outcomes can average to.             *)
BrierValues == {R(1, 10), R(28, 100), R(3, 10)}

MaxSelectionRuns == 1

(* The table model_weights when the process starts: empty on a fresh       *)
(* database, or what the run_model_selection of an earlier process left    *)
(* (the database file outlives the process): here one model killed and the *)
(* other two at mean Brier 0.1.                                            *)
StoresAtStart ==
    {[m \in Models |-> Absent],
     [m \in Models |-> IF m = "gpt-4.1" THEN Zero ELSE R(1, 2)]}

SelQuiet ==
    /\ mwStore = [m \in Models |-> Absent]
    /\ selPc = "idle"
    /\ selStats = [m \in Models |-> NoSamples]
    /\ selW = [m \in Models |-> Absent]
    /\ selIdx = 0
    /\ selRuns = 0

PipeQuiet ==
    /\ pipePc = "idle"
    /\ pipeActive = {}
    /\ pipeCalled = {}
    /\ pipeFc = {}
    /\ pipeRows = {}
    /\ pipeContrib = {}
    /\ pipeZeroAtStart = {}
    /\ pipeZeroAtLoad = {}

(* model_selector.py lines 48-61: the weight a model with samples gets     *)
(* from its mean Brier.                                                    *)
SkillWeight(b) ==
    IF RLt(MODEL_KILL_BRIER, b)
    THEN Zero
    ELSE RMax(R(1, 100), RSub(One, RDiv(b, R(25, 100))))

KeptWeight_Default(m) == One

(* model_selector.py lines 41-46: no samples, keep the stored weight      *)
(* (1.0 when the table has no row for the model).                          *)
KeptWeight(m) == IF mwStore[m] = Absent THEN One ELSE mwStore[m]

FirstWeight(m) ==
    IF selStats[m] = NoSamples THEN KeptWeight(m) ELSE SkillWeight(selStats[m])

RECURSIVE SumPositive(_, _)
SumPositive(w, ms) ==
    IF ms = {} THEN Zero
    ELSE LET m == CHOOSE x \in ms : TRUE
             rest == SumPositive(w, ms \ {m})
         IN  IF w[m] # Absent /\ RLt(Zero, w[m]) THEN RAdd(w[m], rest) ELSE rest

Normalised_Skipped(w, total) == w

(* model_selector.py lines 67-69: total and the normalised dict.           *)
Normalised(w, total) == [m \in Models |-> RDiv(w[m], total)]

(* db/store.py upsert_model_weight, lines 326-340.                         *)
upsert_model_weight(m, w) == mwStore' = [mwStore EXCEPT ![m] = w]

(* db/store.py get_model_weights (lines 319-323) under                     *)
(* model_selector.py get_current_weights (lines 80-89).                    *)
get_current_weights ==
    [m \in Models |-> IF mwStore[m] = Absent THEN ConfigWeight(m) ELSE mwStore[m]]

StoredZero == {m \in Models : mwStore[m] = Zero}

(* model_selector.py lines 27-37: the run starts and reads the outcomes    *)
(* of the last 30 days.                                                    *)
SelStart(stats) ==
    /\ selPc = "idle"
    /\ selRuns < MaxSelectionRuns
    /\ selRuns' = selRuns + 1
    /\ selPc' = "scoring"
    /\ selStats' = stats
    /\ selIdx' = 1
    /\ UNCHANGED <<mwStore, selW>>

(* model_selector.py lines 39-64: one iteration of the loop over the       *)
(* roster ids, ending in upsert_model_weight. After the last iteration     *)
(* lines 67-69 compute the total and, when it is positive, the normalised  *)
(* dict.                                                                   *)
SelScore ==
    /\ selPc = "scoring"
    /\ LET m == RosterOrder[selIdx]
           w == FirstWeight(m)
           w2 == [selW EXCEPT ![m] = w]
           total == SumPositive(w2, Models)
       IN  /\ upsert_model_weight(m, w)
           /\ IF selIdx < Len(RosterOrder)
              THEN /\ selW' = w2
                   /\ selIdx' = selIdx + 1
                   /\ UNCHANGED selPc
              ELSE IF RLt(Zero, total)
              THEN /\ selW' = Normalised(w2, total)
                   /\ selPc' = "normalising"
                   /\ selIdx' = 1
              ELSE /\ selW' = w2
                   /\ selPc' = "done"
                   /\ UNCHANGED selIdx
    /\ UNCHANGED <<selStats, selRuns>>

(* model_selector.py lines 71-74: re-persist one normalised weight.        *)
SelPersist ==
    /\ selPc = "normalising"
    /\ upsert_model_weight(RosterOrder[selIdx], selW[RosterOrder[selIdx]])
    /\ IF selIdx = Len(RosterOrder)
       THEN selPc' = "done" /\ UNCHANGED selIdx
       ELSE selIdx' = selIdx + 1 /\ UNCHANGED selPc
    /\ UNCHANGED <<selStats, selW, selRuns>>

(* model_selector.py lines 76-77: the run returns.                         *)
SelEnd ==
    /\ selPc = "done"
    /\ selPc' = "idle"
    /\ selStats' = [m \in Models |-> NoSamples]
    /\ selW' = [m \in Models |-> Absent]
    /\ selIdx' = 0
    /\ UNCHANGED <<mwStore, selRuns>>

(* agent.py _process_market, lines 112-128: the pipeline for one market    *)
(* starts.                                                                 *)
PipeStart ==
    /\ pipePc = "idle"
    /\ pipePc' = "started"
    /\ pipeZeroAtStart' = StoredZero
    /\ UNCHANGED <<pipeActive, pipeCalled, pipeFc, pipeRows, pipeContrib, pipeZeroAtLoad>>

ActiveConfigs_All(w) == {m \in Models : RLe(Zero, w[m])}

(* forecaster.py forecast, lines 70-81: the configs a task is made for.    *)
ActiveConfigs(w) == {m \in Models : RLt(Zero, w[m])}

(* agent.py lines 157-167, after the awaits of steps 1-4: load the weights *)
(* and build the model configs from them.                                  *)
PipeLoadWeights ==
    /\ pipePc = "started"
    /\ pipePc' = "loaded"
    /\ pipeActive' = ActiveConfigs(get_current_weights)
    /\ pipeZeroAtLoad' = StoredZero
    /\ UNCHANGED <<pipeCalled, pipeFc, pipeRows, pipeContrib, pipeZeroAtStart>>

(* agent.py lines 170-181 and forecaster.py forecast, lines 66-92: the     *)
(* models with weight > 0 are called; fc are those that return a forecast. *)
PipeForecast(fc) ==
    /\ pipePc = "loaded"
    /\ fc \subseteq pipeActive
    /\ pipeCalled' = pipeActive
    /\ pipeFc' = fc
    /\ pipePc' = IF fc = {} THEN "done" ELSE "forecast"
    /\ UNCHANGED <<pipeActive, pipeRows, pipeContrib, pipeZeroAtStart, pipeZeroAtLoad>>

(* agent.py lines 184-206: combine (ensemble.py lines 44-55 skip forecasts *)
(* of weight <= 0) and insert one Forecast row per forecast.               *)
PipeStore ==
    /\ pipePc = "forecast"
    /\ pipeContrib' = pipeFc \cap pipeActive
    /\ pipeRows' = pipeFc
    /\ pipePc' = "done"
    /\ UNCHANGED <<pipeActive, pipeCalled, pipeFc, pipeZeroAtStart, pipeZeroAtLoad>>

(* agent.py lines 179-181 or 220-228: the pipeline for the market ends.    *)
PipeEnd ==
    /\ pipePc = "done"
    /\ pipePc' = "idle"
    /\ pipeActive' = {}
    /\ pipeCalled' = {}
    /\ pipeFc' = {}
    /\ pipeRows' = {}
    /\ pipeContrib' = {}
    /\ pipeZeroAtStart' = {}
    /\ pipeZeroAtLoad' = {}

-----------------------------------------------------------------------------
(* intelligence/forecaster.py, intelligence/entropy.py and                 *)
(* intelligence/ensemble.py: from the providers' responses to the Forecast *)
(* rows of one market.                                                     *)

(* config.py lines 112 and 130                                             *)
ENTROPY_THRESHOLD_DEFAULT == R(4, 1)
ENTROPY_HIGH_TIER == ENTROPY_THRESHOLD_DEFAULT

(* A provider call that returned None or raised (forecaster.py lines       *)
(* 132-133, 182-184, 232-234, 280-282).                                    *)
NoResponse == [kind |-> "no_response", val |-> Absent]

(* Response texts, by the branch of _extract_probability they take:        *)
(*   json     {"probability": val}                                         *)
(*   percent  "... val% ..."                                               *)
(*   decimal  "... 0.<digits> ...", val the digits read as a number        *)
(*   prose    no number at all                                             *)
Texts ==
    {[kind |-> "json", val |-> R(-1, 5)],
     [kind |-> "json", val |-> Zero],
     [kind |-> "json", val |-> R(150, 1)],
     [kind |-> "percent", val |-> R(65, 1)],
     [kind |-> "decimal", val |-> R(5, 1)],
     [kind |-> "prose", val |-> Absent]}

(* Token logprob payloads, each logprob in units of ln 2 (so that          *)
(* -logprob is the token's entropy estimate in bits).                      *)
LogprobPayloads == {<<>>, <<R(-2, 1)>>, <<R(-7, 1), R(-8, 1)>>, <<One>>}

EnsQuiet ==
    /\ ensPc = "start"
    /\ ensText = [m \in Models |-> NoResponse]
    /\ ensLogprobs = [m \in Models |-> <<>>]
    /\ ensMW = [m \in Models |-> One]
    /\ ensDW = [m \in Models |-> Absent]
    /\ ensTau = Absent
    /\ ensForecasts = <<>>
    /\ ensOut = [prob |-> Absent, entropy |-> Absent, tier |-> "none"]
    /\ ensRows = <<>>

(* forecaster.py line 314: max(0.01, min(0.99, val))                       *)
ClampProbability(val) == RMax(R(1, 100), RMin(R(99, 100), val))

(* forecaster.py _extract_probability, lines 285-317.                      *)
_extract_probability(text) ==
    CASE text.kind = "json" ->
            IF RLt(One, text.val) THEN RDiv(text.val, R(100, 1)) ELSE text.val
      [] text.kind = "percent" ->
            ClampProbability(RDiv(text.val, R(100, 1)))
      [] text.kind = "decimal" ->
            ClampProbability(IF RLt(One, text.val)
                             THEN RDiv(text.val, R(100, 1)) ELSE text.val)
      [] OTHER -> Absent

(* forecaster.py lines 176, 226, 274: `prob or 0.5`.                       *)
ProbOrHalf(prob) == IF prob = Absent \/ prob = Zero THEN R(1, 2) ELSE prob

(* entropy.py compute_sequence_entropy, lines 19-47. The clamp             *)
(* min(lp, -1e-9) is taken at 0: 1e-9 is below what the model resolves.    *)
compute_sequence_entropy(logprobs) ==
    IF logprobs = <<>>
    THEN ENTROPY_THRESHOLD_DEFAULT
    ELSE RDiv(RSumSeq([i \in 1..Len(logprobs) |-> RNeg(RMin(logprobs[i], Zero))]),
              R(Len(logprobs), 1))

(* entropy.py confidence_tier, lines 81-95.                                *)
confidence_tier(entropy, domain_threshold) ==
    LET threshold == IF domain_threshold # Absent
                     THEN domain_threshold ELSE ENTROPY_HIGH_TIER
        medium_threshold == RMul(threshold, R(3, 2))
    IN  IF RLe(entropy, threshold) THEN "high"
        ELSE IF RLe(entropy, medium_threshold) THEN "medium"
        ELSE "low"

(* forecaster.py lines 173 (_call_anthropic) and 213-221, 262-270          *)
(* (_call_openai, _call_deepseek): the entropy of one response.            *)
ResponseEntropy(m, prob, logprobs) ==
    IF m = "claude-sonnet-4-6"
    THEN IF prob # Absent THEN R(7, 2) ELSE R(6, 1)
    ELSE IF logprobs # <<>> THEN compute_sequence_entropy(logprobs) ELSE R(7, 2)

(* forecaster.py _forecast_one, lines 95-153.                              *)
_forecast_one(m, text, logprobs, domain_threshold) ==
    LET prob == _extract_probability(text)
        entropy_val == ResponseEntropy(m, prob, logprobs)
    IN  [model |-> m,
         raw_probability |-> ProbOrHalf(prob),
         entropy |-> entropy_val,
         confidence |-> confidence_tier(entropy_val, domain_threshold)]

(* Mutant of forecast: a task for every config, whatever its weight.       *)
forecast_Unfiltered(text, logprobs, model_weights, domain_threshold) ==
    LET answered == SelectSeq(RosterOrder, LAMBDA m : text[m] # NoResponse)
    IN  [i \in 1..Len(answered) |->
            _forecast_one(answered[i], text[answered[i]],
                          logprobs[answered[i]], domain_threshold)]

(* forecaster.py forecast, lines 66-92: one task per config of weight > 0, *)
(* in the order of config.MODELS; the tasks that return None or raise are  *)
(* left out.                                                               *)
forecast(text, logprobs, model_weights, domain_threshold) ==
    LET answered == SelectSeq(RosterOrder,
                        LAMBDA m : /\ m \in ActiveConfigs(model_weights)
                                   /\ text[m] # NoResponse)
    IN  [i \in 1..Len(answered) |->
            _forecast_one(answered[i], text[answered[i]],
                          logprobs[answered[i]], domain_threshold)]

(* ensemble.py lines 40-55: the three running sums after the first n      *)
(* forecasts, as <<weighted_sum, entropy_sum, weight_total>>.              *)
RECURSIVE CombineSums(_, _, _, _)
CombineSums(forecasts, n, model_weights, calibration) ==
    IF n = 0 THEN <<Zero, Zero, Zero>>
    ELSE LET f == forecasts[n]
             acc == CombineSums(forecasts, n - 1, model_weights, calibration)
             mw == model_weights[f.model]
             dw == IF calibration[f.model] = Absent THEN One
                   ELSE calibration[f.model]
             w == RMul(mw, dw)
         IN  IF RLe(w, Zero) THEN acc
             ELSE <<RAdd(acc[1], RMul(f.raw_probability, w)),
                    RAdd(acc[2], RMul(f.entropy, w)),
                    RAdd(acc[3], w)>>

(* ensemble.py combine, lines 17-71.                                       *)
combine(forecasts, model_weights, calibration, domain_threshold) ==
    IF forecasts = <<>>
    THEN [prob |-> R(1, 2), entropy |-> R(6, 1), tier |-> "low"]
    ELSE LET sums == CombineSums(forecasts, Len(forecasts), model_weights,
                                 calibration)
             weight_total == sums[3]
         IN  IF RLe(weight_total, Zero)
             THEN [prob |-> RDiv(RSumSeq([i \in 1..Len(forecasts) |->
                                             forecasts[i].raw_probability]),
                                 R(Len(forecasts), 1)),
                   entropy |-> R(5, 1),
                   tier |-> "low"]
             ELSE LET ensemble_entropy == RDiv(sums[2], weight_total)
                  IN  [prob |-> RDiv(sums[1], weight_total),
                       entropy |-> ensemble_entropy,
                       tier |-> confidence_tier(ensemble_entropy,
                                                domain_threshold)]

(* agent.py lines 170-181: step 6, and the return when no model answered.  *)
EnsForecast ==
    /\ ensPc = "start"
    /\ ensForecasts' = forecast(ensText, ensLogprobs, ensMW, ensTau)
    /\ ensPc' = IF ensForecasts' = <<>> THEN "ended" ELSE "forecast"
    /\ UNCHANGED <<ensText, ensLogprobs, ensMW, ensDW, ensTau, ensOut, ensRows>>

(* agent.py lines 184-190: step 7.                                         *)
EnsCombine ==
    /\ ensPc = "forecast"
    /\ ensOut' = combine(ensForecasts, ensMW, ensDW, ensTau)
    /\ ensPc' = "combined"
    /\ UNCHANGED <<ensText, ensLogprobs, ensMW, ensDW, ensTau, ensForecasts,
                   ensRows>>

(* agent.py lines 193-206: step 8, one insert_forecast per forecast.       *)
EnsStore ==
    /\ ensPc = "combined"
    /\ ensRows' = [i \in 1..Len(ensForecasts) |->
                      [model |-> ensForecasts[i].model,
                       raw_probability |-> ensForecasts[i].raw_probability,
                       entropy |-> ensForecasts[i].entropy,
                       ensemble_probability |-> ensOut.prob,
                       confidence_tier |-> ensOut.tier]]
    /\ ensPc' = "stored"
    /\ UNCHANGED <<ensText, ensLogprobs, ensMW, ensDW, ensTau, ensForecasts,
                   ensOut>>

(* agent.py lines 209-218: step 9, the TradeIntent is built from the       *)
(* ensemble's result and handed to maybe_trade.                            *)
EnsTrade ==
    /\ ensPc = "stored"
    /\ ensPc' = "traded"
    /\ UNCHANGED <<ensText, ensLogprobs, ensMW, ensDW, ensTau, ensForecasts,
                   ensOut, ensRows>>

-----------------------------------------------------------------------------
(* Python floats (IEEE 754 binary64) as far as threshold_adapter.py and    *)
(* prompt_evolver.py use them: int / int, float - float and the            *)
(* comparisons. A float is a sign   *)
(* s, an exponent e and MantissaBits bits m, most significant first: its   *)
(* value is s * 0.m * 2^e.                                                 *)

MantissaBits == 53

ZeroBits(k) == [i \in 1..k |-> 0]

FloatZero == [s |-> 0, e |-> 0, m |-> ZeroBits(MantissaBits)]

(* 2^k modulo d.                                                           *)
RECURSIVE Pow2Mod(_, _)
Pow2Mod(k, d) ==
    IF k = 0 THEN 1 % d
    ELSE LET h == Pow2Mod(k \div 2, d)
         IN  (h * h * (IF k % 2 = 1 THEN 2 ELSE 1)) % d

(* The remainder of r / d after k bits behind the binary point, and the    *)
(* first k of those bits (0 <= r < d).                                     *)
DivRem(r, d, k) == (r * Pow2Mod(k, d)) % d
DivBits(r, d, k) ==
    [i \in 1..k |-> IF 2 * DivRem(r, d, i - 1) >= d THEN 1 ELSE 0]

LexLt(p, q) ==
    \E i \in 1..Len(p) : /\ p[i] < q[i]
                         /\ \A j \in 1..(i - 1) : p[j] = q[j]

(* bits + 1 in Len(bits) + 1 bits: the first bit is the carry.             *)
IncBits(bits) ==
    LET zeros == {i \in 1..Len(bits) : bits[i] = 0}
        last == IF zeros = {} THEN 0
                ELSE CHOOSE i \in zeros : \A j \in zeros : j <= i
    IN  [i \in 1..(Len(bits) + 1) |->
            IF i - 1 < last THEN (IF i = 1 THEN 0 ELSE bits[i - 1])
            ELSE IF i - 1 = last THEN 1 ELSE 0]

(* p - q for bit strings of one length with p >= q: a bit borrows when the *)
(* bits behind it are less in p than in q.                                 *)
SubBits(p, q) ==
    LET n == Len(p)
        borrow(i) == IF LexLt(SubSeq(p, i + 1, n), SubSeq(q, i + 1, n))
                     THEN 1 ELSE 0
    IN  [i \in 1..n |-> (p[i] - q[i] - borrow(i)) % 2]

LeadingZeros(bits) ==
    LET ones == {i \in 1..Len(bits) : bits[i] = 1}
    IN  IF ones = {} THEN Len(bits)
        ELSE (CHOOSE i \in ones : \A j \in ones : i <= j) - 1

(* Round to nearest, ties to even: bits starts with a 1, sticky says that  *)
(* the exact value has nonzero bits beyond bits.                           *)
RoundNearestEven(sign, e, bits, sticky) ==
    IF Len(bits) <= MantissaBits
    THEN [s |-> sign, e |-> e, m |-> bits \o ZeroBits(MantissaBits - Len(bits))]
    ELSE LET keep == SubSeq(bits, 1, MantissaBits)
             rest == sticky \/ \E i \in (MantissaBits + 2)..Len(bits) : bits[i] = 1
             up == bits[MantissaBits + 1] = 1 /\ (rest \/ keep[MantissaBits] = 1)
             t == IncBits(keep)
         IN  IF ~up THEN [s |-> sign, e |-> e, m |-> keep]
             ELSE IF t[1] = 1
                  THEN [s |-> sign, e |-> e + 1, m |-> SubSeq(t, 1, MantissaBits)]
                  ELSE [s |-> sign, e |-> e, m |-> Tail(t)]

(* num / den * 2^e with den / 2 <= num < den.                              *)
RECURSIVE NormaliseQuotient(_, _, _)
NormaliseQuotient(num, den, e) ==
    IF num >= den THEN NormaliseQuotient(num, 2 * den, e + 1)
    ELSE IF 2 * num < den THEN NormaliseQuotient(2 * num, den, e - 1)
    ELSE <<num, den, e>>

(* Python n / d for ints n >= 0, d > 0: the correctly rounded quotient.    *)
float_truediv(n, d) ==
    IF n = 0 THEN FloatZero
    ELSE LET quot == NormaliseQuotient(n, d, 0)
         IN  RoundNearestEven(1, quot[3],
                              DivBits(quot[1], quot[2], MantissaBits + 1),
                              DivRem(quot[1], quot[2], MantissaBits + 1) # 0)

float_neg(f) == [s |-> 0 - f.s, e |-> f.e, m |-> f.m]

(* Python a - b for floats a >= 0, b >= 0: the exact difference, rounded.  *)
float_sub(a, b) ==
    IF b.s = 0 THEN a
    ELSE IF a.s = 0 THEN float_neg(b)
    ELSE LET hi == IF a.e >= b.e THEN a.e ELSE b.e
             lo == IF a.e >= b.e THEN b.e ELSE a.e
             abits == ZeroBits(hi - a.e) \o a.m \o ZeroBits(a.e - lo)
             bbits == ZeroBits(hi - b.e) \o b.m \o ZeroBits(b.e - lo)
         IN  IF abits = bbits THEN FloatZero
             ELSE LET neg == LexLt(abits, bbits)
                      diff == IF neg THEN SubBits(bbits, abits)
                              ELSE SubBits(abits, bbits)
                      z == LeadingZeros(diff)
                  IN  RoundNearestEven(IF neg THEN 0 - 1 ELSE 1, hi - z,
                                       SubSeq(diff, z + 1, Len(diff)), FALSE)

(* Python a < b for floats.                                                *)
float_lt(a, b) ==
    IF a.s # b.s THEN a.s < b.s
    ELSE IF a.s = 0 THEN FALSE
    ELSE LET below == a.e < b.e \/ (a.e = b.e /\ LexLt(a.m, b.m))
             above == b.e < a.e \/ (a.e = b.e /\ LexLt(b.m, a.m))
         IN  IF a.s = 1 THEN below ELSE above

-----------------------------------------------------------------------------
(* learning/prompt_evolver.py: the weekly prompt tournament.               *)

(* prompt_evolver.py lines 24 and 27, config.py line 113                   *)
RETIRE_BRIER_GAP == R(5, 100)
MAX_VARIANTS_PER_DOMAIN == 3
PROMPT_TOURNAMENT_MIN_TRIALS == 20

(* The NULL domain of the seeded variants and of the global round, and two *)
(* of the domains of config.DOMAIN_PRIORITY.                               *)
NullDomain == "NULL"
Domains == {"geopolitics", "politics"}

(* prompt_evolver.py lines 63-66 and 244-246: the seeded versions, and     *)
(* the versions "v-evolved-<md5[:8]>" of the texts the evolver can return. *)
SeedVersions == {"v1-baseline", "v2-cot"}
EvolvedOrder == <<"v-evolved-a", "v-evolved-b", "v-evolved-c", "v-evolved-d">>
EvolvedVersions == {EvolvedOrder[i] : i \in 1..Len(EvolvedOrder)}
Versions == SeedVersions \cup EvolvedVersions

(* The evolver call failed or returned no text (lines 237-242).            *)
NoText == "no_text"

NoRow == [domain |-> "absent", active |-> 0]

MaxRounds == 6

(* What the outcomes of the last 60 days hold for one version (lines       *)
(* 112-123): how many Brier scores, and their mean.                        *)
VariantStats ==
    {[n |-> 19, mean |-> R(2, 10)],
     [n |-> 20, mean |-> R(1, 10)],
     [n |-> 20, mean |-> R(2, 10)]}

(* agent.py load_state -> seed_initial_prompts (lines 69-85) on an empty   *)
(* table.                                                                  *)
PromptQuiet ==
    /\ promptTable = [v \in Versions |->
                         IF v \in SeedVersions
                         THEN [domain |-> NullDomain, active |-> 1]
                         ELSE NoRow]
    /\ promptPc = "idle"
    /\ promptDomain = NullDomain
    /\ promptRounds = 0

(* What the evolver can answer: nothing, a text it has answered before     *)
(* (its version has a row), or a text it has not; the texts not yet        *)
(* answered are interchangeable, so the first of them stands for all.      *)
EvolverAnswers(table) ==
    {NoText}
    \cup {v \in EvolvedVersions : table[v] # NoRow}
    \cup {EvolvedOrder[i] : i \in {j \in 1..Len(EvolvedOrder) :
              /\ table[EvolvedOrder[j]] = NoRow
              /\ \A k \in 1..(j - 1) : table[EvolvedOrder[k]] # NoRow}}

(* db/store.py get_active_prompts, lines 347-357.                          *)
get_active_prompts(table, domain) ==
    IF domain # NullDomain
    THEN {v \in Versions : table[v].active = 1
                           /\ table[v].domain \in {domain, NullDomain}}
    ELSE {v \in Versions : table[v].active = 1}

(* db/store.py upsert_prompt_experiment, lines 360-376: on a conflict of   *)
(* prompt_version the row keeps its domain.                                *)
upsert_prompt_experiment(table, v, domain, active) ==
    IF table[v] = NoRow
    THEN [table EXCEPT ![v] = [domain |-> domain, active |-> active]]
    ELSE [table EXCEPT ![v].active = active]

(* db/store.py retire_prompt, lines 379-385, for a set of versions.        *)
retire_prompt(table, vs) ==
    [v \in Versions |-> IF v \in vs THEN [table[v] EXCEPT !.active = 0]
                        ELSE table[v]]

(* prompt_evolver.py lines 136 and 156: sum(briers) / len(briers) as a     *)
(* float, for Brier scores whose sum is exact in binary64 (0, 0.25, 1).    *)
MeanBrier(mean) == float_truediv(mean[1], mean[2])

(* prompt_evolver.py line 157: mean_b - best_brier > RETIRE_BRIER_GAP, in  *)
(* floats; tabulated for every pair of means the outcomes can give (the    *)
(* empty function joined at the end makes the table explicit).             *)
MeanValues == {R(1, 10), R(3, 20), R(2, 10)}

GapExceeded ==
    [pair \in MeanValues \X MeanValues |->
        float_lt(MeanBrier(RETIRE_BRIER_GAP),
                 float_sub(MeanBrier(pair[1]), MeanBrier(pair[2])))] @@ <<>>

ExceedsGap(mean_b, best_brier) == GapExceeded[<<mean_b, best_brier>>]

(* prompt_evolver.py lines 133 and 154                                     *)
EnoughTrials(n) == n >= PROMPT_TOURNAMENT_MIN_TRIALS

(* The least mean Brier among the evaluated variants (lines 130-144).      *)
BestBrier(stats, evaluated) ==
    CHOOSE b \in {stats[v].mean : v \in evaluated} :
        \A v \in evaluated : RLe(b, stats[v].mean)

(* prompt_evolver.py run_prompt_tournament, lines 104-159: a round for     *)
(* `domain` starts, the outcomes giving `stats` for the active variants;   *)
(* it returns when no variant has enough trials, and otherwise retires the *)
(* losers.                                                                 *)
RoundEvaluate(domain, stats) ==
    LET active == get_active_prompts(promptTable, domain)
        evaluated == {v \in active : EnoughTrials(stats[v].n)}
        best_brier == BestBrier(stats, evaluated)
        losers == {v \in evaluated : ExceedsGap(stats[v].mean, best_brier)}
    IN  /\ promptPc = "idle"
        /\ promptRounds < MaxRounds
        /\ IF evaluated = {}
           THEN /\ promptRounds' = promptRounds + 1
                /\ UNCHANGED <<promptTable, promptPc, promptDomain>>
           ELSE /\ promptTable' = retire_prompt(promptTable, losers)
                /\ promptPc' = "retired"
                /\ promptDomain' = domain
                /\ UNCHANGED promptRounds

(* prompt_evolver.py lines 161-166 with _get_worst_prompt (169-184, which  *)
(* returns a variant whenever one was evaluated) and _generate_new_variant *)
(* (187-257): the evolver answers with the text whose version is           *)
(* `evolved`, and the round ends.                                          *)
RoundGenerate(evolved) ==
    LET remaining == get_active_prompts(promptTable, promptDomain)
    IN  /\ promptPc = "retired"
        /\ IF Cardinality(remaining) < MAX_VARIANTS_PER_DOMAIN
           THEN promptTable' =
                    IF evolved # NoText
                    THEN upsert_prompt_experiment(promptTable, evolved,
                                                  promptDomain, 1)
                    ELSE promptTable
           ELSE evolved = NoText /\ UNCHANGED promptTable
        /\ promptPc' = "idle"
        /\ promptDomain' = NullDomain
        /\ promptRounds' = promptRounds + 1

-----------------------------------------------------------------------------
(* trading/edge.py, trading/kelly.py, trading/executor.py and              *)
(* trading/portfolio.py under the run_forecasts executions of agent.py.    *)

(* config.py lines 89-92                                                   *)
MIN_EDGE == R(5, 100)
KELLY_FRACTION == R(25, 100)
MAX_POSITION_PCT == R(5, 100)
MAX_OPEN_POSITIONS == 20

(* config.py line 21                                                       *)
VIRTUAL_BANKROLL == R(10000, 1)

Markets == {"m1", "m2"}

(* The run_forecasts that main_loop awaits directly (run.py line 137) and  *)
(* the one the scheduler fires (agent.py lines 311-317).                   *)
Runners == {"startup", "scheduled"}

(* Stored YES prices, ensemble probabilities, tiers and domain weights a   *)
(* pipeline run can hand to maybe_trade.                                   *)
PriceValues == {Zero, R(1, 2), One}
Intents ==
    {[prob |-> R(3, 5), tier |-> "high", dw |-> One],
     [prob |-> R(3, 5), tier |-> "medium", dw |-> One],
     [prob |-> R(3, 5), tier |-> "high", dw |-> R(3, 10)],
     [prob |-> R(1, 2), tier |-> "high", dw |-> One]}

(* portfolio_state.cash when the process starts: no row yet (get_portfolio *)
(* answers VIRTUAL_BANKROLL), or what earlier trades left.                 *)
CashAtStart == {VIRTUAL_BANKROLL, R(1, 4)}

(* Open positions in markets outside Markets.                              *)
OpenElsewhere == {0, MAX_OPEN_POSITIONS - 1, MAX_OPEN_POSITIONS}

Idle(pc, todo) ==
    [pc |-> pc, todo |-> todo, market |-> "none", prob |-> Absent,
     tier |-> "none", dw |-> Absent, open_count |-> 0, had_position |-> FALSE,
     cash |-> Absent, portfolio_cash |-> Absent]

TradeQuiet ==
    /\ trPrice = [m \in Markets |-> R(1, 2)]
    /\ trForecasted = [m \in Markets |-> FALSE]
    /\ trPaper = TRUE
    /\ trOpenElsewhere = 0
    /\ trades = <<>>
    /\ cash = VIRTUAL_BANKROLL
    /\ run = [r \in Runners |-> Idle("waiting", {})]
    /\ trDecisions = <<>>
    /\ cashStart = VIRTUAL_BANKROLL
    /\ trRaised = {}

(* agent.py line 144: float(market_dict.get("market_price") or 0.5)        *)
MarketPrice(stored) == IF stored = Zero THEN R(1, 2) ELSE stored

(* edge.py best_side_and_edge, lines 20-33 (with compute_edge, 9-17).      *)
best_side_and_edge(ensemble_prob, market_price) ==
    LET yes_edge == RSub(ensemble_prob, market_price)
    IN  IF RLe(Zero, yes_edge)
        THEN [side |-> "YES", edge |-> yes_edge]
        ELSE [side |-> "NO", edge |-> RNeg(yes_edge)]

is_tradeable_AnyTier(edge, tier, domain_weight, current_open) ==
    /\ ~(current_open >= MAX_OPEN_POSITIONS)
    /\ ~RLt(edge, MIN_EDGE)
    /\ ~RLt(domain_weight, R(1, 2))

(* edge.py is_tradeable, lines 36-61.                                      *)
is_tradeable(edge, tier, domain_weight, current_open) ==
    /\ ~(current_open >= MAX_OPEN_POSITIONS)
    /\ ~RLt(edge, MIN_EDGE)
    /\ ~(tier # "high")
    /\ ~RLt(domain_weight, R(1, 2))

full_kelly_OverPrice(edge, price) == RDiv(edge, price)

(* kelly.py line 52: full_kelly = edge / (1.0 - price).                    *)
full_kelly(edge, price) == RDiv(edge, RSub(One, price))

kelly_fraction_Uncapped(edge, market_price, side) ==
    LET price == IF side = "YES" THEN market_price ELSE RSub(One, market_price)
    IN  IF RLe(price, Zero) \/ RLe(One, price)
        THEN Zero
        ELSE RMax(Zero, RMul(full_kelly(edge, price), KELLY_FRACTION))

(* kelly.py kelly_fraction, lines 21-61.                                   *)
kelly_fraction(edge, market_price, side) ==
    LET price == IF side = "YES" THEN market_price ELSE RSub(One, market_price)
    IN  IF RLe(price, Zero) \/ RLe(One, price)
        THEN Zero
        ELSE RMax(Zero, RMin(RMul(full_kelly(edge, price), KELLY_FRACTION),
                             MAX_POSITION_PCT))

(* Python's round(x, 2).                                                   *)
Round2(x) == R(RRound(RMul(x, R(100, 1))), 100)

(* kelly.py size_from_fraction, lines 64-84.                               *)
size_from_fraction(fraction, bankroll, price) ==
    IF RLe(price, Zero)
    THEN Zero
    ELSE RMax(One, Round2(RDiv(RMul(bankroll, fraction), price)))

(* db/store.py count_open_positions, lines 216-226, and has_position,      *)
(* lines 229-234.                                                          *)
count_open_positions ==
    trOpenElsewhere + Cardinality({trades[i].market_id : i \in 1..Len(trades)})

has_position(market_id) ==
    \E i \in 1..Len(trades) : trades[i].market_id = market_id

(* What maybe_trade computes between its awaits (executor.py lines 45-46   *)
(* and 67-70) from the intent and the values it read.                      *)
Sizing(market, prob, cashRead) ==
    LET market_price == MarketPrice(trPrice[market])
        se == best_side_and_edge(prob, market_price)
        fill_price == IF se.side = "YES" THEN market_price
                      ELSE RSub(One, market_price)
        frac == kelly_fraction(se.edge, market_price, se.side)
        size == size_from_fraction(frac, cashRead, fill_price)
    IN  [side |-> se.side, edge |-> se.edge, fill_price |-> fill_price,
         frac |-> frac, size |-> size, cost |-> RMul(size, fill_price)]

(* maybe_trade or _process_market returns: run_forecasts goes on to the    *)
(* next market of its list (agent.py lines 106-107).                       *)
Returned(r) ==
    Idle(IF run[r].todo = {} THEN "finished" ELSE "next", run[r].todo)

(* agent.py run_forecasts, lines 97-105: the list of unforecasted markets. *)
TrRunStart(r) ==
    /\ run[r].pc = "waiting"
    /\ LET todo == {m \in Markets : ~trForecasted[m]}
       IN  run' = [run EXCEPT ![r] =
                      Idle(IF todo = {} THEN "finished" ELSE "next", todo)]
    /\ UNCHANGED <<trPrice, trForecasted, trPaper, trOpenElsewhere, trades,
                   cash, trDecisions, cashStart, trRaised>>

(* agent.py _process_market, lines 112-181 and 227-228: the pipeline of    *)
(* market m ends without a forecast (no model answered, or a step raised). *)
TrNoForecast(r, m) ==
    /\ run[r].pc = "next"
    /\ m \in run[r].todo
    /\ LET todo == run[r].todo \ {m}
       IN  run' = [run EXCEPT ![r] =
                      Idle(IF todo = {} THEN "finished" ELSE "next", todo)]
    /\ UNCHANGED <<trPrice, trForecasted, trPaper, trOpenElsewhere, trades,
                   cash, trDecisions, cashStart, trRaised>>

(* agent.py _process_market, lines 112-218: the pipeline of market m       *)
(* inserts its Forecast rows and builds the TradeIntent.                   *)
TrForecast(r, m, intent) ==
    /\ run[r].pc = "next"
    /\ m \in run[r].todo
    /\ trForecasted' = [trForecasted EXCEPT ![m] = TRUE]
    /\ run' = [run EXCEPT ![r] =
                  [Idle("count_open", run[r].todo \ {m}) EXCEPT
                      !.market = m, !.prob = intent.prob,
                      !.tier = intent.tier, !.dw = intent.dw]]
    /\ UNCHANGED <<trPrice, trPaper, trOpenElsewhere, trades, cash,
                   trDecisions, cashStart, trRaised>>

(* executor.py lines 44-58: count_open_positions and the filter.           *)
TrCountOpen(r) ==
    /\ run[r].pc = "count_open"
    /\ LET open_count == count_open_positions
           se == best_side_and_edge(run[r].prob,
                                    MarketPrice(trPrice[run[r].market]))
       IN  run' = [run EXCEPT ![r] =
                      IF is_tradeable(se.edge, run[r].tier, run[r].dw, open_count)
                      THEN [run[r] EXCEPT !.pc = "has_position",
                                          !.open_count = open_count]
                      ELSE Returned(r)]
    /\ UNCHANGED <<trPrice, trForecasted, trPaper, trOpenElsewhere, trades,
                   cash, trDecisions, cashStart, trRaised>>

(* executor.py lines 61-63.                                                *)
TrHasPosition(r) ==
    /\ run[r].pc = "has_position"
    /\ LET found == has_position(run[r].market)
       IN  run' = [run EXCEPT ![r] =
                      IF found
                      THEN Returned(r)
                      ELSE [run[r] EXCEPT !.pc = "get_cash",
                                          !.had_position = found]]
    /\ UNCHANGED <<trPrice, trForecasted, trPaper, trOpenElsewhere, trades,
                   cash, trDecisions, cashStart, trRaised>>

(* executor.py lines 66-76 and 97-105: get_cash, the sizing and the cash   *)
(* check.                                                                  *)
TrGetCash(r) ==
    /\ run[r].pc = "get_cash"
    /\ run' = [run EXCEPT ![r] =
                  IF RLt(cash, Sizing(run[r].market, run[r].prob, cash).cost)
                  THEN Returned(r)
                  ELSE [run[r] EXCEPT
                           !.pc = IF trPaper THEN "insert" ELSE "place_order",
                           !.cash = cash]]
    /\ UNCHANGED <<trPrice, trForecasted, trPaper, trOpenElsewhere, trades,
                   cash, trDecisions, cashStart, trRaised>>

(* Mutant of TrPlaceOrder: maybe_trade goes on after a raising order.      *)
TrPlaceOrder_RaiseIgnored(r, placed) ==
    /\ run[r].pc = "place_order"
    /\ run' = [run EXCEPT ![r] = [run[r] EXCEPT !.pc = "insert"]]
    /\ trRaised' = IF placed THEN trRaised
                   ELSE trRaised \cup {<<r, run[r].market>>}
    /\ UNCHANGED <<trPrice, trForecasted, trPaper, trOpenElsewhere, trades,
                   cash, trDecisions, cashStart>>

(* executor.py lines 107-113: the live order is placed, or it raises and   *)
(* maybe_trade returns None.                                               *)
TrPlaceOrder(r, placed) ==
    /\ run[r].pc = "place_order"
    /\ run' = [run EXCEPT ![r] =
                  IF placed THEN [run[r] EXCEPT !.pc = "insert"]
                  ELSE Returned(r)]
    /\ trRaised' = IF placed THEN trRaised
                   ELSE trRaised \cup {<<r, run[r].market>>}
    /\ UNCHANGED <<trPrice, trForecasted, trPaper, trOpenElsewhere, trades,
                   cash, trDecisions, cashStart>>

(* The table trades takes every row insert_trade hands it: its key is the  *)
(* auto-incremented id and the one-trade-per-market rule is left to the    *)
(* has_position check (db/schema.sql is not part of the sources).          *)
TradesTableAccepts(table, row) == TRUE

(* db/store.py insert_trade, lines 199-213.                                *)
insert_trade(row) ==
    /\ TradesTableAccepts(trades, row)
    /\ trades' = Append(trades, row)

(* executor.py lines 78-89 (paper) and 115-126 (live).                     *)
TrInsert(r) ==
    /\ run[r].pc = "insert"
    /\ LET s == Sizing(run[r].market, run[r].prob, run[r].cash)
       IN  /\ insert_trade([market_id |-> run[r].market,
                            side |-> s.side,
                            size_units |-> s.size,
                            price |-> s.fill_price,
                            kelly_fraction |-> s.frac,
                            edge |-> s.edge,
                            is_paper |-> IF trPaper THEN 1 ELSE 0])
           /\ trDecisions' = Append(trDecisions,
                                [edge |-> s.edge,
                                 tier |-> run[r].tier,
                                 dw |-> run[r].dw,
                                 open_count |-> run[r].open_count,
                                 had_position |-> run[r].had_position,
                                 cost |-> s.cost])
    /\ run' = [run EXCEPT ![r].pc = "deduct_read"]
    /\ UNCHANGED <<trPrice, trForecasted, trPaper, trOpenElsewhere, cash,
                   cashStart, trRaised>>

(* portfolio.py deduct_cash, line 30: read the portfolio.                  *)
TrDeductRead(r) ==
    /\ run[r].pc = "deduct_read"
    /\ run' = [run EXCEPT ![r].pc = "deduct_write",
                          ![r].portfolio_cash = cash]
    /\ UNCHANGED <<trPrice, trForecasted, trPaper, trOpenElsewhere, trades,
                   cash, trDecisions, cashStart, trRaised>>

(* portfolio.py deduct_cash, lines 31-34: write the new cash; maybe_trade  *)
(* returns the trade id (executor.py lines 90-95, 127-132).                *)
TrDeductWrite(r) ==
    /\ run[r].pc = "deduct_write"
    /\ cash' = RMax(Zero,
                    RSub(run[r].portfolio_cash,
                         Sizing(run[r].market, run[r].prob, run[r].cash).cost))
    /\ run' = [run EXCEPT ![r] = Returned(r)]
    /\ UNCHANGED <<trPrice, trForecasted, trPaper, trOpenElsewhere, trades,
                   trDecisions, cashStart, trRaised>>

-----------------------------------------------------------------------------
(* agent.py run_forecasts (lines 97-109) and the steps of _process_market  *)
(* (lines 112-228) for the markets of one fire.                            *)

ForecastMarkets == Markets \cup {"m3"}

(* The awaits and conversions of _process_market, in program order: step 1 *)
(* (line 126), step 2 (lines 131-148), step 3 (151), step 4 (154), step 5  *)
(* (157-160), step 6 (170-177), step 7 (184-190), step 8 (193-206), and    *)
(* step 9 (209, then 211-218).                                             *)
PipelineSteps ==
    <<"classify", "market", "news", "prompt", "weights", "forecast",
      "combine", "store", "domain_weight", "maybe_trade">>

(* The lists get_unforecasted_markets can return: the unforecasted markets *)
(* in the order the query gives them.                                      *)
Snapshots ==
    {s \in UNION {[1..n -> ForecastMarkets] : n \in 0..Cardinality(ForecastMarkets)} :
        \A i \in 1..Len(s), j \in 1..Len(s) : i # j => s[i] # s[j]}

FrQuiet ==
    /\ frPc = "idle"
    /\ frSnapshot = <<>>
    /\ frIdx = 0
    /\ frNext = 0
    /\ frSteps = [m \in ForecastMarkets |-> <<>>]
    /\ frRaisedAt = [m \in ForecastMarkets |-> "none"]
    /\ frOrder = <<>>

(* Mutant of CaughtInPipeline: _process_market has no except clause.       *)
CaughtInPipeline_Nowhere(step) == FALSE

(* agent.py lines 123 and 227-228: every step of _process_market stands in *)
(* its try/except Exception.                                               *)
CaughtInPipeline(step) == \E i \in 1..Len(PipelineSteps) : PipelineSteps[i] = step

(* agent.py lines 106-107: _process_market has returned; the for loop      *)
(* takes the next market of the list, or ends.                             *)
FrAdvance ==
    IF frIdx < Len(frSnapshot)
    THEN /\ frIdx' = frIdx + 1
         /\ frNext' = 1
         /\ frOrder' = Append(frOrder, frSnapshot[frIdx + 1])
         /\ UNCHANGED frPc
    ELSE /\ frPc' = "finished"
         /\ frIdx' = 0
         /\ frNext' = 0
         /\ UNCHANGED frOrder

(* agent.py lines 99-105: the fire starts and takes its list of markets.   *)
FrList(snapshot) ==
    /\ frPc = "idle"
    /\ frSnapshot' = snapshot
    /\ IF snapshot = <<>>
       THEN /\ frPc' = "finished"
            /\ UNCHANGED <<frIdx, frNext, frOrder>>
       ELSE /\ frPc' = "loop"
            /\ frIdx' = 1
            /\ frNext' = 1
            /\ frOrder' = <<snapshot[1]>>
    /\ UNCHANGED <<frSteps, frRaisedAt>>

(* agent.py lines 108-109: get_unforecasted_markets raises; the fire logs  *)
(* and ends.                                                               *)
FrListRaises ==
    /\ frPc = "idle"
    /\ frPc' = "finished"
    /\ UNCHANGED <<frSnapshot, frIdx, frNext, frSteps, frRaisedAt, frOrder>>

(* agent.py line 125: the market already has a domain; step 1 is skipped.  *)
FrSkipClassify ==
    /\ frPc = "loop"
    /\ frNext = 1
    /\ frNext' = 2
    /\ UNCHANGED <<frPc, frSnapshot, frIdx, frSteps, frRaisedAt, frOrder>>

(* The next step of the current market's pipeline runs and returns. After  *)
(* step 6 an empty forecast list makes _process_market return (lines       *)
(* 179-181); after step 9 it returns at the end of its body.               *)
FrStepReturns(empty) ==
    /\ frPc = "loop"
    /\ LET m == frSnapshot[frIdx]
           step == PipelineSteps[frNext]
       IN  /\ empty => step = "forecast"
           /\ frSteps' = [frSteps EXCEPT ![m] = Append(@, step)]
           /\ IF empty \/ frNext = Len(PipelineSteps)
              THEN FrAdvance
              ELSE /\ frNext' = frNext + 1
                   /\ UNCHANGED <<frPc, frIdx, frOrder>>
    /\ UNCHANGED <<frSnapshot, frRaisedAt>>

(* The next step of the current market's pipeline raises. Caught at lines  *)
(* 227-228, _process_market logs and returns; uncaught, the exception      *)
(* leaves the for loop and run_forecasts logs it (lines 108-109).          *)
FrStepRaises ==
    /\ frPc = "loop"
    /\ LET m == frSnapshot[frIdx]
           step == PipelineSteps[frNext]
       IN  /\ frSteps' = [frSteps EXCEPT ![m] = Append(@, step)]
           /\ frRaisedAt' = [frRaisedAt EXCEPT ![m] = step]
           /\ IF CaughtInPipeline(step)
              THEN FrAdvance
              ELSE /\ frPc' = "finished"
                   /\ frIdx' = 0
                   /\ frNext' = 0
                   /\ UNCHANGED frOrder
    /\ UNCHANGED frSnapshot

-----------------------------------------------------------------------------
(* intelligence/forecaster.py: the process-wide semaphore (lines 30-37)    *)
(* and the _forecast_one tasks of the pipelines that run at the same time. *)

LLM_CONCURRENCY == 3

(* One _forecast_one task per pipeline and roster model: the pipelines of  *)
(* the two run_forecasts executions that can be in flight together.        *)
Tasks == Runners \X Models

(* config.py lines 45, 51, 57: every roster model names a provider that    *)
(* _forecast_one knows (forecaster.py lines 122-130).                      *)
KnownProvider(m) == m \in Models

SemQuiet ==
    /\ semCreated = FALSE
    /\ semValue = 0
    /\ semTask = [t \in Tasks |-> "pending"]

(* Calls in flight: the tasks inside a provider call.                      *)
CallsInFlight == {t \in Tasks : semTask[t] = "calling"}

(* forecaster.py _get_semaphore, lines 33-37: the free permits of the      *)
(* semaphore, created with LLM_CONCURRENCY permits on first use.           *)
_get_semaphore == IF semCreated THEN semValue ELSE LLM_CONCURRENCY

(* Mutant of ReleasedOnExit: a raising call keeps its permit.              *)
ReleasedOnExit_NotOnRaise(outcome) == outcome # "raised"

(* forecaster.py line 121: `async with` releases the permit however the    *)
(* block is left: a result, None, the unknown-provider return, a raise.    *)
ReleasedOnExit(outcome) ==
    outcome \in {"result", "none", "unknown_provider", "raised"}

(* forecaster.py forecast, lines 70-83: the pipeline of runner p creates   *)
(* the tasks of the configs with weight > 0 and gathers them.              *)
SemSpawn(p, active) ==
    /\ \A m \in Models : semTask[<<p, m>>] = "pending"
    /\ active # {}
    /\ semTask' = [t \in Tasks |->
                      IF t[1] = p /\ t[2] \in active THEN "waiting"
                      ELSE semTask[t]]
    /\ UNCHANGED <<semCreated, semValue>>

(* forecaster.py lines 121-130: the task takes a permit when one is free   *)
(* and enters its provider call; with an unknown provider it leaves the    *)
(* block at once.                                                          *)
SemAcquire(t) ==
    /\ semTask[t] = "waiting"
    /\ _get_semaphore > 0
    /\ semCreated' = TRUE
    /\ IF KnownProvider(t[2])
       THEN /\ semValue' = _get_semaphore - 1
            /\ semTask' = [semTask EXCEPT ![t] = "calling"]
       ELSE /\ semValue' = _get_semaphore - 1
                           + (IF ReleasedOnExit("unknown_provider") THEN 1 ELSE 0)
            /\ semTask' = [semTask EXCEPT ![t] = "none"]

(* forecaster.py lines 123-127 and 132-153: the provider call returns a    *)
(* result, returns None, or raises; the block is left.                     *)
SemCallEnds(t, outcome) ==
    /\ semTask[t] = "calling"
    /\ semTask' = [semTask EXCEPT ![t] = outcome]
    /\ semValue' = semValue + (IF ReleasedOnExit(outcome) THEN 1 ELSE 0)
    /\ UNCHANGED semCreated

(* forecaster.py lines 83-92: gather returns once every task of the        *)
(* pipeline has ended; the pipeline goes on and a later one can start.     *)
SemGather(p) ==
    /\ \E m \in Models : semTask[<<p, m>>] # "pending"
    /\ \A m \in Models : semTask[<<p, m>>] \notin {"waiting", "calling"}
    /\ semTask' = [t \in Tasks |-> IF t[1] = p THEN "pending" ELSE semTask[t]]
    /\ UNCHANGED <<semCreated, semValue>>

-----------------------------------------------------------------------------
(* learning/domain_calibrator.py, learning/threshold_adapter.py and the    *)
(* table calibration_state (db/store.py lines 279-312), for one domain.    *)

(* config.py lines 115-116 and domain_calibrator.py line 24                *)
DOMAIN_WEIGHT_GOOD_BRIER == R(15, 100)
DOMAIN_WEIGHT_BAD_BRIER == R(25, 100)
RANDOM_BASELINE_BRIER == R(25, 100)

(* threshold_adapter.py lines 28, 31, 32, 33                               *)
MIN_OUTCOMES_FOR_ADAPTATION == 20
THRESHOLD_STEP == R(1, 4)
MIN_THRESHOLD == R(1, 1)
MAX_THRESHOLD == R(8, 1)

(* The (domain, model) row that does not exist.                            *)
NoCalRow == [present |-> FALSE, brier |-> Absent, weight |-> Absent, tau |-> Absent]

(* domain_calibrator.py _brier_to_weight, lines 71-82                      *)
_brier_to_weight(brier) ==
    IF RLt(brier, DOMAIN_WEIGHT_GOOD_BRIER) THEN R(15, 10)
    ELSE IF RLt(brier, R(20, 100)) THEN R(12, 10)
    ELSE IF RLt(brier, RANDOM_BASELINE_BRIER) THEN One
    ELSE IF RLt(brier, DOMAIN_WEIGHT_BAD_BRIER) THEN R(7, 10)
    ELSE R(3, 10)

(* store.py upsert_calibration, lines 289-305: insert the row or update it *)
(* on conflict; a null entropy_threshold keeps the stored one (COALESCE).  *)
upsert_calibration(table, model, brier, weight, entropy_threshold) ==
    [table EXCEPT ![model] =
        [present |-> TRUE, brier |-> brier, weight |-> weight,
         tau |-> IF entropy_threshold = Absent THEN table[model].tau
                 ELSE entropy_threshold]]

(* The Brier lists a (domain, model) group of the last 90 days can hold:   *)
(* three equal scores, or two scores only.                                 *)
BrierLists ==
    {<<b, b, b>> : b \in {R(10, 100), R(15, 100), R(17, 100), R(20, 100),
                          R(22, 100), R(25, 100), R(26, 100), R(28, 100),
                          R(30, 100)}}
    \cup {<<R(10, 100), R(30, 100)>>}

CalQuiet ==
    /\ calibration_state = [m \in Models |-> NoCalRow]
    /\ calPc = [pc |-> "idle", done |-> {}]

(* domain_calibrator.py lines 33-39: the run reads the outcomes and        *)
(* returns when they are fewer than LEARNING_BATCH_SIZE.                   *)
CalStart(n_outcomes) ==
    /\ calPc.pc = "idle"
    /\ calPc' = [pc |-> IF n_outcomes < LEARNING_BATCH_SIZE THEN "returned"
                        ELSE "groups",
                 done |-> {}]
    /\ UNCHANGED <<calibration_state, adRun>>

(* domain_calibrator.py lines 48-57: the next group of the loop; a group   *)
(* of fewer than 3 scores is passed over.                                  *)
CalGroup(model, briers) ==
    /\ calPc.pc = "groups"
    /\ model \notin calPc.done
    /\ calPc' = [calPc EXCEPT !.done = @ \cup {model}]
    /\ IF Len(briers) < 3
       THEN UNCHANGED calibration_state
       ELSE LET mean_brier == RDiv(RSumSeq(briers), R(Len(briers), 1))
                weight == _brier_to_weight(mean_brier)
            IN  calibration_state' =
                    upsert_calibration(calibration_state, model, mean_brier,
                                       weight, Absent)
    /\ UNCHANGED adRun

(* domain_calibrator.py line 48: the groups are exhausted.                 *)
CalReturn ==
    /\ calPc.pc = "groups"
    /\ calPc' = [calPc EXCEPT !.pc = "returned"]
    /\ UNCHANGED <<calibration_state, adRun>>

(* agent.py lines 89 and 242: a later cycle calls run_calibration again.   *)
CalAgain ==
    /\ calPc.pc = "returned"
    /\ calPc' = [pc |-> "idle", done |-> {}]
    /\ UNCHANGED <<calibration_state, adRun>>

(* The two callers of run_threshold_adaptation: check_resolutions through  *)
(* _run_incremental_calibration (agent.py lines 79-90) and                 *)
(* self_improvement (agent.py lines 238-244), two jobs of the scheduler.   *)
AdaptRunners == {"incremental", "daily"}

(* The entropies of the joined forecasts: below every threshold above      *)
(* LowEntropy, and above every threshold.                                  *)
LowEntropy == R(2, 1)
HighEntropy == R(9, 1)

(* The (entropy, correct) pairs of the domain, counted: lc correct and lw  *)
(* wrong pairs at LowEntropy, hc and hw at HighEntropy.                    *)
NoPoints == [lc |-> 0, lw |-> 0, hc |-> 0, hw |-> 0]
PointSets == [lc : {0, 4, 6}, lw : {4, 6}, hc : {3, 8, 10}, hw : {7}]

NumPoints(points) == points.lc + points.lw + points.hc + points.hw

(* threshold_adapter.py lines 125-126: the pairs with ent < tau, and those *)
(* with ent >= tau, as <<number of pairs, number of correct pairs>>.       *)
BelowTau(points, tau) ==
    <<(IF RLt(LowEntropy, tau) THEN points.lc + points.lw ELSE 0)
        + (IF RLt(HighEntropy, tau) THEN points.hc + points.hw ELSE 0),
      (IF RLt(LowEntropy, tau) THEN points.lc ELSE 0)
        + (IF RLt(HighEntropy, tau) THEN points.hc ELSE 0)>>
AboveTau(points, tau) ==
    <<NumPoints(points) - BelowTau(points, tau)[1],
      points.lc + points.hc - BelowTau(points, tau)[2]>>

(* threshold_adapter.py _adapt_threshold, lines 114-150; the literals 0.10 *)
(* and 0.05 are the floats nearest to 1/10 and 1/20.                       *)
_adapt_threshold(points, current_tau) ==
    LET below == BelowTau(points, current_tau)
        above == AboveTau(points, current_tau)
    IN  IF below[1] = 0 \/ above[1] = 0 THEN current_tau
        ELSE LET p_below == float_truediv(below[2], below[1])
                 p_above == float_truediv(above[2], above[1])
                 separation == float_sub(p_below, p_above)
             IN  IF float_lt(float_truediv(1, 10), separation)
                 THEN RMax(MIN_THRESHOLD, RSub(current_tau, THRESHOLD_STEP))
                 ELSE IF float_lt(separation, float_truediv(1, 20))
                 THEN RMin(MAX_THRESHOLD, RAdd(current_tau, THRESHOLD_STEP))
                 ELSE current_tau

(* The thresholds of the rows of the table, in roster order.               *)
RECURSIVE ThresholdsOf(_, _)
ThresholdsOf(table, order) ==
    IF order = <<>> THEN <<>>
    ELSE (IF table[Head(order)].present /\ table[Head(order)].tau # Absent
          THEN <<table[Head(order)].tau>> ELSE <<>>)
         \o ThresholdsOf(table, Tail(order))

(* ensemble.py build_domain_thresholds, lines 82-94: the domain's          *)
(* threshold is the average of the thresholds of its rows; no entry        *)
(* (Absent) when no row has one.                                           *)
build_domain_thresholds(table) ==
    LET vals == ThresholdsOf(table, RosterOrder)
    IN  IF vals = <<>> THEN Absent
        ELSE RDiv(RSumSeq(vals), R(Len(vals), 1))

(* threshold_adapter.py lines 48-62 and 92: the same average, or the       *)
(* default when no row of the domain has a threshold.                      *)
current_thresholds(table) ==
    IF build_domain_thresholds(table) = Absent THEN ENTROPY_THRESHOLD_DEFAULT
    ELSE build_domain_thresholds(table)

AdIdle ==
    [pc |-> "idle", points |-> NoPoints, tau |-> Absent, new_tau |-> Absent,
     idx |-> 0, state |-> NoCalRow]

AdaptQuiet == adRun = [r \in AdaptRunners |-> AdIdle]

(* The tables a process can find when an adaptation starts: the rows of    *)
(* the calibrator without a threshold yet, or rows an earlier adaptation   *)
(* left at one threshold; one model may have no row.                       *)
CalRowAt(tau) == [present |-> TRUE, brier |-> R(10, 100), weight |-> R(15, 10), tau |-> tau]
CalTablesAtStart ==
    {[m \in Models |-> CalRowAt(tau)] : tau \in {Absent, MIN_THRESHOLD, MAX_THRESHOLD}}
    \cup {[m \in Models |-> IF m = "gpt-4.1" THEN NoCalRow
                            ELSE CalRowAt(ENTROPY_THRESHOLD_DEFAULT)]}

(* threshold_adapter.py lines 44-94: the run reads the outcomes, the       *)
(* calibration rows and the entropies; a domain with fewer than            *)
(* MIN_OUTCOMES_FOR_ADAPTATION pairs is passed over, otherwise the new     *)
(* threshold is computed from the threshold read.                          *)
AdRead(r, points) ==
    /\ adRun[r].pc = "idle"
    /\ LET tau == current_thresholds(calibration_state)
       IN  adRun' = [adRun EXCEPT ![r] =
              IF NumPoints(points) < MIN_OUTCOMES_FOR_ADAPTATION
              THEN [AdIdle EXCEPT !.pc = "done", !.points = points, !.tau = tau]
              ELSE [AdIdle EXCEPT !.pc = "get_state", !.points = points,
                                  !.tau = tau,
                                  !.new_tau = _adapt_threshold(points, tau),
                                  !.idx = 1]]
    /\ UNCHANGED <<calibration_state, calPc>>

(* threshold_adapter.py lines 97-99: the row of the next roster model is   *)
(* read; a model without a row is passed over.                             *)
AdGetState(r) ==
    /\ adRun[r].pc = "get_state"
    /\ LET state == calibration_state[RosterOrder[adRun[r].idx]]
       IN  adRun' = [adRun EXCEPT ![r] =
              IF state.present THEN [@ EXCEPT !.pc = "upsert", !.state = state]
              ELSE IF @.idx = Len(RosterOrder)
                   THEN [@ EXCEPT !.pc = "done", !.idx = 0]
                   ELSE [@ EXCEPT !.idx = @ + 1]]
    /\ UNCHANGED <<calibration_state, calPc>>

(* threshold_adapter.py lines 100-107: the row is written back with the    *)
(* new threshold; after the last roster model the run returns.             *)
AdUpsert(r) ==
    /\ adRun[r].pc = "upsert"
    /\ calibration_state' =
          upsert_calibration(calibration_state, RosterOrder[adRun[r].idx],
                             adRun[r].state.brier, adRun[r].state.weight,
                             adRun[r].new_tau)
    /\ adRun' = [adRun EXCEPT ![r] =
          IF @.idx = Len(RosterOrder)
          THEN [@ EXCEPT !.pc = "done", !.idx = 0, !.state = NoCalRow]
          ELSE [@ EXCEPT !.pc = "get_state", !.idx = @ + 1, !.state = NoCalRow]]
    /\ UNCHANGED calPc

-----------------------------------------------------------------------------
(* trading/edge.py and trading/kelly.py as pure functions of the market    *)
(* price and the ensemble probability.                                     *)

(* Prices and probabilities on a grid of twentieths.                       *)
SizingGrid == {R(k, 20) : k \in 0..20}

NoSizing ==
    [side |-> "none", edge |-> Absent, price |-> Absent,
     full_kelly |-> Absent, fk |-> Absent, frac |-> Absent]

SizeQuiet ==
    /\ szPrice = R(1, 2)
    /\ szProb = R(1, 2)
    /\ szOut = NoSizing

(* kelly.py lines 41-45: the effective price of the side.                  *)
SidePrice(market_price, side) ==
    IF side = "YES" THEN market_price ELSE RSub(One, market_price)

(* executor.py lines 45 and 68: the side and edge of best_side_and_edge    *)
(* go to kelly_fraction, whose locals price, full_kelly and fk (before the *)
(* cap) are kept beside its result.                                        *)
SzSize ==
    /\ szOut = NoSizing
    /\ LET se == best_side_and_edge(szProb, szPrice)
           price == SidePrice(szPrice, se.side)
           degenerate == RLe(price, Zero) \/ RLe(One, price)
           full == IF degenerate THEN Absent ELSE full_kelly(se.edge, price)
       IN  szOut' = [side |-> se.side, edge |-> se.edge, price |-> price,
                     full_kelly |-> full,
                     fk |-> IF degenerate THEN Absent
                            ELSE RMul(full, KELLY_FRACTION),
                     frac |-> kelly_fraction(se.edge, szPrice, se.side)]
    /\ UNCHANGED <<szPrice, szProb>>

(* The next pair of inputs.                                                *)
SzAgain ==
    /\ szOut # NoSizing
    /\ szPrice' \in SizingGrid
    /\ szProb' \in SizingGrid
    /\ szOut' = NoSizing

-----------------------------------------------------------------------------
(* db/store.py markets, forecastRows and outcomes; learning/tracker.py.       *)

(* SQL NULL in a text column, and in the integer column outcome.           *)
Null == "null"
NoOutcome == 0 - 1

MaxTrackerRuns == 2

(* all_resolved is the Polymarket list followed by the Kalshi list         *)
(* (tracker.py line 46): a fixed order of the markets.                     *)
MarketOrder == <<"m1", "m2">>

(* exchanges/base.py Market.to_dict (lines 26-39) of a market an adapter's *)
(* get_markets built: resolved and outcome keep their defaults.            *)
ListedMarket(id, price, domain, dedup) ==
    [id |-> id, market_price |-> price, domain |-> domain, resolved |-> 0,
     outcome |-> NoOutcome, dedup_group |-> dedup]

NoMarketRow ==
    [id |-> Null, market_price |-> Absent, domain |-> Null, resolved |-> 0,
     outcome |-> NoOutcome, dedup_group |-> Null]

COALESCE_Excluded(x, y) == x

(* store.py lines 76-77: SQL COALESCE of the new and the stored value.     *)
COALESCE(x, y) == IF x # Null THEN x ELSE y

(* db/store.py upsert_market, lines 62-95.                                 *)
upsert_market(table, market) ==
    LET old == table[market.id]
    IN  [table EXCEPT ![market.id] =
            IF old = NoMarketRow
            THEN market
            ELSE [old EXCEPT !.market_price = market.market_price,
                             !.resolved = market.resolved,
                             !.outcome = market.outcome,
                             !.domain = COALESCE(market.domain, old.domain),
                             !.dedup_group =
                                 COALESCE(market.dedup_group, old.dedup_group)]]

(* db/store.py mark_market_resolved, lines 136-142: an UPDATE, no row is   *)
(* created.                                                                *)
mark_market_resolved(table, market_id, outcome) ==
    IF table[market_id] = NoMarketRow
    THEN table
    ELSE [table EXCEPT ![market_id].resolved = 1,
                       ![market_id].outcome = outcome]

(* db/store.py get_forecasts_for_market, lines 185-192: the ids of the     *)
(* market's forecastRows in creation order.                                   *)
get_forecasts_for_market(market_id) ==
    SelectSeq([i \in 1..Len(forecastRows) |-> i],
              LAMBDA i : forecastRows[i].market_id = market_id)

(* tracker.py line 65.                                                     *)
Brier_Absolute(pred, outcome) ==
    LET d == RSub(pred, Int2R(outcome)) IN IF RLt(d, Zero) THEN RNeg(d) ELSE d

Brier(pred, outcome) ==
    LET d == RSub(pred, Int2R(outcome)) IN RMul(d, d)

(* The outcomes table takes every row insert_outcome sends (store.py lines *)
(* 241-254 is a plain INSERT; the key is an auto-increment integer).       *)
OutcomesTableAccepts(table, row) == TRUE

(* The venues: a market is open, or finalized with result yes, no or none  *)
(* ("void"); recent says the resolution lies within LOOKBACK_HOURS.        *)
VenueResults == {"yes", "no", "void"}
OpenAtVenue == [result |-> "open", recent |-> FALSE]

(* polymarket.py lines 189-194, kalshi.py lines 260-265.                   *)
VenueOutcome(result) ==
    IF result = "yes" THEN 1 ELSE IF result = "no" THEN 0 ELSE NoOutcome

(* get_resolved_markets(since) of both adapters.                           *)
ReportedResolved ==
    SelectSeq([i \in 1..Len(MarketOrder) |->
                  [id |-> MarketOrder[i],
                   outcome |-> VenueOutcome(venue[MarketOrder[i]].result)]],
              LAMBDA m : venue[m.id].result # "open" /\ venue[m.id].recent)

(* Forecast rows present when the tracker runs.                            *)
ForecastTables ==
    {<<[market_id |-> "m1", raw_probability |-> p1],
       [market_id |-> "m1", raw_probability |-> p2],
       [market_id |-> "m2", raw_probability |-> p3]>> :
         p1 \in {R(3, 10), R(7, 10)}, p2 \in {R(1, 2), Absent},
         p3 \in {R(2, 5)}}

TrkIdle == [pc |-> "idle", list |-> <<>>, idx |-> 0, fs |-> <<>>, fidx |-> 0,
            new_outcomes |-> 0]

StoreQuiet ==
    /\ markets = [m \in Markets |-> NoMarketRow]
    /\ forecastRows = <<>>
    /\ outcomes = <<>>
    /\ venue = [m \in Markets |-> OpenAtVenue]
    /\ trk = TrkIdle
    /\ trkCounted = 0
    /\ trkRuns = 0
    /\ trkDropped = {}
    /\ scanPending = {}

(* A venue finalizes a market.                                             *)
VenueResolves(m, result) ==
    /\ venue[m].result = "open"
    /\ venue' = [venue EXCEPT ![m] = [result |-> result, recent |-> TRUE]]
    /\ UNCHANGED <<markets, forecastRows, outcomes, trk, trkCounted, trkRuns,
                   trkDropped, scanPending>>

(* More than LOOKBACK_HOURS have passed since the resolution.              *)
VenueLookbackPasses(m) ==
    /\ venue[m].result # "open"
    /\ venue[m].recent
    /\ venue' = [venue EXCEPT ![m].recent = FALSE]
    /\ UNCHANGED <<markets, forecastRows, outcomes, trk, trkCounted, trkRuns,
                   trkDropped, scanPending>>

(* tracker.py lines 27-47: both lists are fetched.                         *)
TrkFetch ==
    /\ trk.pc = "idle"
    /\ trkRuns < MaxTrackerRuns
    /\ trk' = [TrkIdle EXCEPT !.pc = "market", !.list = ReportedResolved,
                              !.idx = 1]
    /\ UNCHANGED <<markets, forecastRows, outcomes, venue, trkCounted, trkRuns,
                   trkDropped, scanPending>>

DroppedWhenNoOutcome_Never(outcome) == FALSE

(* tracker.py line 50: market.outcome is None.                             *)
DroppedWhenNoOutcome(outcome) == outcome = NoOutcome

(* tracker.py lines 50-51: continue.                                       *)
TrkDrop ==
    /\ trk.pc = "market"
    /\ trk.idx <= Len(trk.list)
    /\ DroppedWhenNoOutcome(trk.list[trk.idx].outcome)
    /\ trk' = [trk EXCEPT !.idx = trk.idx + 1]
    /\ trkDropped' = trkDropped \cup {trk.list[trk.idx].id}
    /\ UNCHANGED <<markets, forecastRows, outcomes, venue, trkCounted, trkRuns,
                   scanPending>>

(* tracker.py line 54.                                                     *)
TrkMark ==
    /\ trk.pc = "market"
    /\ trk.idx <= Len(trk.list)
    /\ ~DroppedWhenNoOutcome(trk.list[trk.idx].outcome)
    /\ markets' = mark_market_resolved(markets, trk.list[trk.idx].id,
                                       trk.list[trk.idx].outcome)
    /\ trk' = [trk EXCEPT !.pc = "load"]
    /\ UNCHANGED <<forecastRows, outcomes, venue, trkCounted, trkRuns,
                   trkDropped, scanPending>>

(* tracker.py lines 57-59.                                                 *)
TrkLoad ==
    /\ trk.pc = "load"
    /\ trk' = [trk EXCEPT !.pc = "forecast",
                          !.fs = get_forecasts_for_market(trk.list[trk.idx].id),
                          !.fidx = 1]
    /\ UNCHANGED <<markets, forecastRows, outcomes, venue, trkCounted, trkRuns,
                   trkDropped, scanPending>>

(* tracker.py lines 62-64: a forecast without raw_probability.             *)
TrkSkipForecast ==
    /\ trk.pc = "forecast"
    /\ trk.fidx <= Len(trk.fs)
    /\ forecastRows[trk.fs[trk.fidx]].raw_probability = Absent
    /\ trk' = [trk EXCEPT !.fidx = trk.fidx + 1]
    /\ UNCHANGED <<markets, forecastRows, outcomes, venue, trkCounted, trkRuns,
                   trkDropped, scanPending>>

(* tracker.py lines 65-78 with store.py insert_outcome.                    *)
TrkInsertOutcome ==
    /\ trk.pc = "forecast"
    /\ trk.fidx <= Len(trk.fs)
    /\ LET f == trk.fs[trk.fidx]
           market == trk.list[trk.idx]
           pred == forecastRows[f].raw_probability
           outcome_row == [market_id |-> market.id, forecast_id |-> f,
                           predicted_prob |-> pred,
                           actual_outcome |-> market.outcome,
                           brier |-> Brier(pred, market.outcome)]
       IN  /\ pred # Absent
           /\ OutcomesTableAccepts(outcomes, outcome_row)
           /\ outcomes' = Append(outcomes, outcome_row)
    /\ trk' = [trk EXCEPT !.fidx = trk.fidx + 1,
                          !.new_outcomes = trk.new_outcomes + 1]
    /\ UNCHANGED <<markets, forecastRows, venue, trkCounted, trkRuns,
                   trkDropped, scanPending>>

(* tracker.py line 61: the forecastRows of this market are done.              *)
TrkNextMarket ==
    /\ trk.pc = "forecast"
    /\ trk.fidx > Len(trk.fs)
    /\ trk' = [trk EXCEPT !.pc = "market", !.idx = trk.idx + 1, !.fs = <<>>,
                          !.fidx = 0]
    /\ UNCHANGED <<markets, forecastRows, outcomes, venue, trkCounted, trkRuns,
                   trkDropped, scanPending>>

(* tracker.py line 83 and agent.py lines 72-73: new_count is added to      *)
(* _last_outcome_count.                                                    *)
TrkReturn ==
    /\ trk.pc = "market"
    /\ trk.idx > Len(trk.list)
    /\ trkCounted' = trkCounted + trk.new_outcomes
    /\ trkRuns' = trkRuns + 1
    /\ trk' = TrkIdle
    /\ UNCHANGED <<markets, forecastRows, outcomes, venue, trkDropped,
                   scanPending>>

(* scanner.py lines 28-47: a scan lists the markets open at the venues.    *)
ScanFetch ==
    /\ scanPending = {}
    /\ \E m \in Markets : venue[m].result = "open"
    /\ scanPending' = {m \in Markets : venue[m].result = "open"}
    /\ UNCHANGED <<markets, forecastRows, outcomes, venue, trk, trkCounted,
                   trkRuns, trkDropped>>

(* scanner.py lines 55-58.                                                 *)
ScanUpsert(m) ==
    /\ m \in scanPending
    /\ markets' = upsert_market(markets, ListedMarket(m, R(1, 2), Null, Null))
    /\ scanPending' = scanPending \ {m}
    /\ UNCHANGED <<forecastRows, outcomes, venue, trk, trkCounted, trkRuns,
                   trkDropped>>

-----------------------------------------------------------------------------
(* db/store.py upsert_market under any sequence of calls.                  *)

MaxUpserts == 4

UpsertPrices == {Absent, R(1, 4), R(3, 4)}
UpsertDomains == {Null, "politics", "sports"}

(* The dictionaries scan_all_markets hands to upsert_market for one       *)
(* market id (scanner.py lines 55-58).                                     *)
UpsertArgs(id) ==
    {ListedMarket(id, p, d, Null) : p \in UpsertPrices, d \in UpsertDomains}

RECURSIVE SumLen(_, _)
SumLen(calls, ms) ==
    IF ms = {} THEN 0
    ELSE LET m == CHOOSE x \in ms : TRUE
         IN  Len(calls[m]) + SumLen(calls, ms \ {m})

UpsertQuiet == upCalls = [m \in Markets |-> <<>>]

Upsert(market) ==
    /\ SumLen(upCalls, Markets) < MaxUpserts
    /\ markets' = upsert_market(markets, market)
    /\ upCalls' = [upCalls EXCEPT ![market.id] = Append(@, market)]
    /\ UNCHANGED <<forecastRows, outcomes, venue, trk, trkCounted, trkRuns,
                   trkDropped, scanPending>>

-----------------------------------------------------------------------------
(* exchanges/scanner.py: scan_all_markets and _find_dedup_groups.          *)

PolyOrder == <<"polymarket:a", "polymarket:b">>
KalshiOrder == <<"kalshi:x", "kalshi:y">>
PolyIds == {PolyOrder[i] : i \in 1..Len(PolyOrder)}
KalshiIds == {KalshiOrder[i] : i \in 1..Len(KalshiOrder)}
ScanIds == PolyIds \cup KalshiIds

(* scanner.py line 20                                                      *)
DEDUP_THRESHOLD == 85

(* Scores a pair of questions can get: below, at and above the threshold.  *)
ScoreValues == {50, 85, 90}

MaxScans == 2

(* The markets of `order` that are in `listed`, in that order.             *)
Listing(order, listed) == SelectSeq(order, LAMBDA id : id \in listed)

DsIdle == [pc |-> "idle", all_markets |-> <<>>, idx |-> 0,
           dedup_groups |-> [id \in ScanIds |-> Null]]

DedupQuiet ==
    /\ scanStore = [id \in ScanIds |-> NoMarketRow]
    /\ dsScore = [pair \in PolyIds \X KalshiIds |-> 0]
    /\ ds = DsIdle
    /\ dsScans = 0

(* scanner.py lines 81-90: the first Kalshi market with the highest score  *)
(* above 0, as <<best_score, best_match>>.                                 *)
RECURSIVE BestMatch(_, _, _)
BestMatch(pm, kalshi_markets, best) ==
    IF kalshi_markets = <<>> THEN best
    ELSE LET km == Head(kalshi_markets)
             score == dsScore[<<pm, km>>]
         IN  BestMatch(pm, Tail(kalshi_markets),
                       IF score > best[1] THEN <<score, km>> ELSE best)

(* scanner.py _find_dedup_groups, lines 64-102; a missing key of the       *)
(* returned dict reads as None (line 57, dict.get).                        *)
RECURSIVE _find_dedup_groups(_, _, _)
_find_dedup_groups(poly_markets, kalshi_markets, groups) ==
    IF poly_markets = <<>> THEN groups
    ELSE LET pm == Head(poly_markets)
             best == BestMatch(pm, kalshi_markets, <<0, Null>>)
         IN  _find_dedup_groups(
                 Tail(poly_markets), kalshi_markets,
                 IF best[1] >= DEDUP_THRESHOLD /\ best[2] # Null
                 THEN [groups EXCEPT ![pm] = best[2], ![best[2]] = pm]
                 ELSE groups)

(* scanner.py lines 28-52: both venues are listed and the groups computed. *)
DsStart(poly_listed, kalshi_listed) ==
    /\ ds.pc = "idle"
    /\ dsScans < MaxScans
    /\ LET poly_markets == Listing(PolyOrder, poly_listed)
           kalshi_markets == Listing(KalshiOrder, kalshi_listed)
       IN  ds' = [pc |-> "persist",
                  all_markets |-> poly_markets \o kalshi_markets,
                  idx |-> 1,
                  dedup_groups |->
                      _find_dedup_groups(poly_markets, kalshi_markets,
                                         [id \in ScanIds |-> Null])]
    /\ UNCHANGED <<scanStore, dsScore, dsScans>>

(* scanner.py lines 55-58: one market is upserted.                         *)
DsUpsert ==
    /\ ds.pc = "persist"
    /\ ds.idx <= Len(ds.all_markets)
    /\ LET id == ds.all_markets[ds.idx]
       IN  scanStore' =
               upsert_market(scanStore,
                             ListedMarket(id, R(1, 2), Null, ds.dedup_groups[id]))
    /\ ds' = [ds EXCEPT !.idx = ds.idx + 1]
    /\ UNCHANGED <<dsScore, dsScans>>

(* scanner.py lines 60-61.                                                 *)
DsReturn ==
    /\ ds.pc = "persist"
    /\ ds.idx > Len(ds.all_markets)
    /\ ds' = [ds EXCEPT !.pc = "returned"]
    /\ dsScans' = dsScans + 1
    /\ UNCHANGED <<scanStore, dsScore>>

(* The scan_markets job fires again.                                       *)
DsAgain ==
    /\ ds.pc = "returned"
    /\ ds' = DsIdle
    /\ UNCHANGED <<scanStore, dsScore, dsScans>>

-----------------------------------------------------------------------------
(* learning/prompt_evolver.py get_active_prompt.                           *)

(* The built-in pair ("v1-baseline", PROMPT_V1) of line 98, which is not   *)
(* read from the table.                                                    *)
BuiltIn == "built-in"

PickIdle == [pc |-> "idle", domain |-> NullDomain, version |-> BuiltIn]

PickQuiet == pick = PickIdle

(* prompt_evolver.py lines 93 and 100-101: the domain's query answers with *)
(* rows and random.choice takes one of them.                               *)
PickFromDomain(domain, chosen) ==
    /\ pick.pc = "idle"
    /\ chosen \in get_active_prompts(promptTable, domain)
    /\ pick' = [pc |-> "returned", domain |-> domain, version |-> chosen]

(* prompt_evolver.py lines 93-94: the domain's query answers with no row.  *)
PickNothing(domain) ==
    /\ pick.pc = "idle"
    /\ get_active_prompts(promptTable, domain) = {}
    /\ pick' = [pc |-> "fallback", domain |-> domain, version |-> BuiltIn]

(* prompt_evolver.py lines 96 and 100-101: the query for all active rows   *)
(* answers with rows and random.choice takes one of them.                  *)
PickFromGlobal(chosen) ==
    /\ pick.pc = "fallback"
    /\ chosen \in get_active_prompts(promptTable, NullDomain)
    /\ pick' = [pick EXCEPT !.pc = "returned", !.version = chosen]

(* prompt_evolver.py lines 97-98.                                          *)
PickBuiltIn ==
    /\ pick.pc = "fallback"
    /\ get_active_prompts(promptTable, NullDomain) = {}
    /\ pick' = [pick EXCEPT !.pc = "returned", !.version = BuiltIn]

(* The next market's call (agent.py _process_market).                      *)
PickAgain ==
    /\ pick.pc = "returned"
    /\ pick' = PickIdle

-----------------------------------------------------------------------------
(* learning/prompt_evolver.py run_prompt_tournament, one round at a time,  *)
(* with what the round started from.                                       *)

MaxTournamentRounds == 2

(* Per version: the number of Brier scores of the last 60 days and their   *)
(* mean (16, 12 or 8 scores of 0.25 among 20 give 0.2, 0.15 and 0.1).      *)
TournamentStats ==
    {[n |-> 19, mean |-> R(2, 10)],
     [n |-> 20, mean |-> R(1, 10)],
     [n |-> 20, mean |-> R(3, 20)],
     [n |-> 20, mean |-> R(2, 10)]}

NoStat == [n |-> 0, mean |-> Absent]

NoRound == [start |-> [v \in Versions |-> NoRow],
            stats |-> [v \in Versions |-> NoStat],
            ended |-> FALSE]

RoundQuiet == rd = NoRound

(* prompt_evolver.py lines 104-159, remembering the round's inputs; the    *)
(* round ends here when no variant has enough trials (lines 146-148).      *)
TnEvaluate(domain, stats) ==
    /\ promptRounds < MaxTournamentRounds
    /\ RoundEvaluate(domain, stats)
    /\ rd' = [start |-> promptTable,
              stats |-> [v \in Versions |->
                            IF v \in DOMAIN stats THEN stats[v] ELSE NoStat],
              ended |-> promptPc' = "idle"]

(* prompt_evolver.py lines 161-166: the round ends.                        *)
TnGenerate(evolved) ==
    /\ RoundGenerate(evolved)
    /\ rd' = [rd EXCEPT !.ended = TRUE]

-----------------------------------------------------------------------------
(* exchanges/kalshi.py: the monotonic-time gate before each request, with  *)
(* the coroutines that exchanges/scanner.py refresh_prices gathers on one  *)
(* client.  Time is counted in twentieths of a second.                     *)

KALSHI_RATE_LIMIT_RPS == 10

MaxTime == 6

(* kalshi.py line 48 *)
_min_interval == 20 \div KALSHI_RATE_LIMIT_RPS

(* scanner.py lines 119-132: one _update coroutine per active market *)
Updates == {"u1", "u2", "u3"}

RlQuiet ==
    /\ rlClock = 0
    /\ _last_request = 0
    /\ rlPc = [u \in Updates |-> "idle"]
    /\ rlWake = [u \in Updates |-> 0]
    /\ rlSent = <<>>

(* The monotonic clock advances whatever the coroutines do. *)
RlTick ==
    /\ rlClock < MaxTime
    /\ rlClock' = rlClock + 1
    /\ UNCHANGED <<_last_request, rlPc, rlWake, rlSent>>

(* kalshi.py lines 89-90 *)
RlWait(now) == _min_interval - (now - _last_request)

(* kalshi.py lines 88-93 and 95-100 up to the first suspension: with a     *)
(* positive wait the coroutine suspends in asyncio.sleep, otherwise it     *)
(* stamps _last_request and issues its request.                            *)
RlEnter(u) ==
    /\ rlPc[u] = "idle"
    /\ IF RlWait(rlClock) > 0
         THEN /\ rlPc' = [rlPc EXCEPT ![u] = "sleeping"]
              /\ rlWake' = [rlWake EXCEPT ![u] = rlClock + RlWait(rlClock)]
              /\ UNCHANGED <<_last_request, rlSent>>
         ELSE /\ _last_request' = rlClock
              /\ rlSent' = Append(rlSent, rlClock)
              /\ rlPc' = [rlPc EXCEPT ![u] = "sent"]
              /\ UNCHANGED rlWake
    /\ UNCHANGED rlClock

(* kalshi.py lines 92-93 and 96-100: the sleep is over, _last_request is   *)
(* stamped and the request issued.                                         *)
RlWakeUp(u) ==
    /\ rlPc[u] = "sleeping"
    /\ rlClock >= rlWake[u]
    /\ _last_request' = rlClock
    /\ rlSent' = Append(rlSent, rlClock)
    /\ rlPc' = [rlPc EXCEPT ![u] = "sent"]
    /\ UNCHANGED <<rlClock, rlWake>>

-----------------------------------------------------------------------------
(* learning/prompt_evolver.py seed_initial_prompts, called by agent.py     *)
(* load_state at every process start, between the tournament rounds that  *)
(* write n_trials and mean_brier.                                          *)

MaxSeeds == 3

(* The columns a fresh row gets (lines 78-80 and 251-253).                 *)
FreshStats == [n_trials |-> 0, n_wins |-> 0, mean_brier |-> Absent]

SeedQuiet ==
    /\ expStats = [v \in Versions |-> FreshStats]
    /\ sdCalls = 0

Existing_NoRows(table) == {}

(* prompt_evolver.py line 71: db.get_active_prompts()                      *)
Existing(table) == get_active_prompts(table, NullDomain)

(* prompt_evolver.py lines 74-83: the two INITIAL_PROMPTS are upserted.    *)
SeededTable(table) ==
    [v \in Versions |->
        IF v \in SeedVersions
        THEN upsert_prompt_experiment(table, v, NullDomain, 1)[v]
        ELSE table[v]]

(* prompt_evolver.py lines 69-85 at a process start: a round that was in   *)
(* flight is gone with the old process.                                    *)
seed_initial_prompts ==
    /\ sdCalls < MaxSeeds
    /\ sdCalls' = sdCalls + 1
    /\ IF Existing(promptTable) # {}
       THEN UNCHANGED <<promptTable, expStats>>
       ELSE /\ promptTable' = SeededTable(promptTable)
            /\ expStats' = [v \in Versions |->
                               IF v \in SeedVersions THEN FreshStats
                               ELSE expStats[v]]
    /\ promptPc' = "idle"
    /\ promptDomain' = NullDomain
    /\ UNCHANGED promptRounds

(* prompt_evolver.py lines 130-159: every evaluated variant gets its       *)
(* n_trials and mean_brier written (lines 136-140), then the losers are    *)
(* retired.                                                                *)
SdEvaluate(domain, stats) ==
    /\ promptRounds < MaxTournamentRounds
    /\ RoundEvaluate(domain, stats)
    /\ expStats' = [v \in Versions |->
                       IF v \in DOMAIN stats /\ EnoughTrials(stats[v].n)
                       THEN [expStats[v] EXCEPT !.n_trials = stats[v].n,
                                                !.mean_brier = stats[v].mean]
                       ELSE expStats[v]]
    /\ UNCHANGED sdCalls

(* prompt_evolver.py lines 161-166 and 247-255: the upsert of the new      *)
(* variant writes n_trials 0, n_wins 0 and mean_brier NULL, also on a      *)
(* conflict of prompt_version.                                             *)
SdGenerate(evolved) ==
    /\ RoundGenerate(evolved)
    /\ expStats' =
           IF /\ evolved # NoText
              /\ Cardinality(get_active_prompts(promptTable, promptDomain))
                     < MAX_VARIANTS_PER_DOMAIN
           THEN [expStats EXCEPT ![evolved] = FreshStats]
           ELSE expStats
    /\ UNCHANGED sdCalls

-----------------------------------------------------------------------------
(* agent.py run_forecasts and _process_market up to the upsert after       *)
(* classification, on the markets table of the tracker and the scanner.    *)

ClassifiedDomains == {"politics", "sports"}

FcQuiet == fcList = <<>>

(* db/store.py get_unforecasted_markets, lines 114-130: copies of the rows *)
(* with resolved = 0 (agent.py line 101).                                  *)
get_unforecasted_markets ==
    SelectSeq([i \in 1..Len(MarketOrder) |-> markets[MarketOrder[i]]],
              LAMBDA row : row # NoMarketRow /\ row.resolved = 0)

(* agent.py lines 99-105.                                                  *)
FcList ==
    /\ fcList = <<>>
    /\ get_unforecasted_markets # <<>>
    /\ fcList' = get_unforecasted_markets
    /\ UNCHANGED storeVars

(* agent.py lines 121-128: the market of the snapshot has no domain; the   *)
(* classifier answers (an await) and the snapshot's row is upserted with   *)
(* the domain.                                                             *)
FcClassify(domain) ==
    /\ fcList # <<>>
    /\ Head(fcList).domain = Null
    /\ markets' = upsert_market(markets, [Head(fcList) EXCEPT !.domain = domain])
    /\ fcList' = Tail(fcList)
    /\ UNCHANGED <<forecastRows, outcomes, venue, trk, trkCounted, trkRuns,
                   trkDropped, scanPending>>

(* agent.py line 125: the market has a domain already, nothing is written. *)
FcClassified ==
    /\ fcList # <<>>
    /\ Head(fcList).domain # Null
    /\ fcList' = Tail(fcList)
    /\ UNCHANGED storeVars

-----------------------------------------------------------------------------
(* trading/executor.py maybe_trade, lines 43-74, with                      *)
(* trading/kelly.py size_from_fraction, for one intent of high tier and    *)
(* domain weight 1 on an empty book, over prices, probabilities and cash   *)
(* balances.                                                               *)

(* Cash balances: the initial bankroll, and what earlier trades can leave. *)
CashValues == {VIRTUAL_BANKROLL, R(100, 1), R(5, 1), R(1, 4)}

NoUnits == [done |-> FALSE, executed |-> FALSE, frac |-> Absent,
            size |-> Absent, fill_price |-> Absent, cost |-> Absent]

UnitQuiet ==
    /\ unCash = VIRTUAL_BANKROLL
    /\ unOut = NoUnits

(* executor.py lines 45-74 between the awaits.                             *)
UnSizing ==
    LET se == best_side_and_edge(szProb, szPrice)
        fill_price == SidePrice(szPrice, se.side)
        frac == kelly_fraction(se.edge, szPrice, se.side)
        size == size_from_fraction(frac, unCash, fill_price)
    IN  [tradeable |-> is_tradeable(se.edge, "high", One, 0),
         frac |-> frac, size |-> size, fill_price |-> fill_price,
         cost |-> RMul(size, fill_price)]

(* executor.py lines 56-58 and 72-74: no trade.                            *)
UnNoTrade ==
    /\ ~unOut.done
    /\ ~UnSizing.tradeable \/ RLt(unCash, UnSizing.cost)
    /\ unOut' = [NoUnits EXCEPT !.done = TRUE]
    /\ UNCHANGED unCash

(* executor.py lines 76-89: the trade is executed with size and fill_price. *)
UnTrade ==
    /\ ~unOut.done
    /\ UnSizing.tradeable
    /\ ~RLt(unCash, UnSizing.cost)
    /\ unOut' = [done |-> TRUE, executed |-> TRUE, frac |-> UnSizing.frac,
                 size |-> UnSizing.size, fill_price |-> UnSizing.fill_price,
                 cost |-> UnSizing.cost]
    /\ UNCHANGED unCash

-----------------------------------------------------------------------------
(* exchanges/scanner.py refresh_prices with get_market_price of both       *)
(* adapters and db/store.py update_market_price.                           *)

StoredPrices == {R(1, 4), R(3, 4)}
VenuePrices == {R(1, 4), R(1, 2), R(3, 4)}
(* The request raised: no price came back.                                 *)
FetchFails == Absent

RefreshQuiet ==
    /\ rfTodo = {}
    /\ rfBefore = [m \in Markets |-> Absent]
    /\ rfFailed = {}

(* db/store.py get_active_markets, lines 98-108.                           *)
get_active_markets ==
    {m \in Markets : markets[m] # NoMarketRow /\ markets[m].resolved = 0}

(* kalshi.py get_market_price, lines 178-190, and polymarket.py            *)
(* get_market_price, lines 115-130: the venue's answer, or 0.5 from the    *)
(* except branch when the request failed.                                  *)
get_market_price(fetched) ==
    IF fetched = FetchFails THEN R(1, 2) ELSE fetched

(* db/store.py update_market_price, lines 145-151.                         *)
update_market_price(table, market_id, price) ==
    IF table[market_id] = NoMarketRow
    THEN table
    ELSE [table EXCEPT ![market_id].market_price = price]

(* scanner.py lines 113-116 and 131-132: the active markets are read and   *)
(* one _update per market is gathered.                                     *)
RfStart ==
    /\ rfTodo = {}
    /\ get_active_markets # {}
    /\ rfTodo' = get_active_markets
    /\ rfBefore' = [m \in Markets |-> markets[m].market_price]
    /\ rfFailed' = {}
    /\ UNCHANGED storeVars

(* scanner.py lines 121-130: _update of one market; the venue answers      *)
(* `fetched`.                                                              *)
RfUpdate(m, fetched) ==
    /\ m \in rfTodo
    /\ markets' = update_market_price(markets, m, get_market_price(fetched))
    /\ rfTodo' = rfTodo \ {m}
    /\ rfFailed' = IF fetched = FetchFails THEN rfFailed \cup {m} ELSE rfFailed
    /\ UNCHANGED <<rfBefore, forecastRows, outcomes, venue, trk, trkCounted,
                   trkRuns, trkDropped, scanPending>>

-----------------------------------------------------------------------------
(* learning/model_selector.py run_model_selection run after run (the daily *)
(* self_improvement job), beside the forecast pipeline of agent.py.        *)

MaxWeightRuns == 2

(* What the 30-day window holds for a model: nothing, or outcomes with a   *)
(* mean Brier of 0.1 (skill 0.6) or of 0.3 (killed).                       *)
WindowStats == {NoSamples, R(1, 10), R(3, 10)}

(* model_selector.py lines 27-37: a run starts and reads the outcomes of   *)
(* the last 30 days.                                                       *)
WtStart(stats) ==
    /\ selPc = "idle"
    /\ selRuns < MaxWeightRuns
    /\ selRuns' = selRuns + 1
    /\ selPc' = "scoring"
    /\ selStats' = stats
    /\ selIdx' = 1
    /\ UNCHANGED <<mwStore, selW>>

-----------------------------------------------------------------------------
(* learning/domain_calibrator.py run_calibration on the outcomes of one    *)
(* domain, grouped by model when the run starts.                           *)

(* The Brier scores of one (domain, model) group of the last 90 days: none, *)
(* two, three or five.                                                     *)
FiveScores ==
    <<R(26, 100), R(26, 100), R(26, 100), R(26, 100), R(26, 100)>>

GroupLists ==
    {<<>>,
     <<R(10, 100), R(30, 100)>>,
     <<R(10, 100), R(10, 100), R(10, 100)>>,
     FiveScores}

NoCalRun == [groups |-> [m \in Models |-> <<>>],
             before |-> [m \in Models |-> NoCalRow]]

WrittenBy(row) == [brier |-> row.brier, weight |-> row.weight]

CalRowsQuiet ==
    /\ calRun = NoCalRun
    /\ calLatest = [m \in Models |-> WrittenBy(NoCalRow)]

(* domain_calibrator.py line 36: len(outcomes).                            *)
RECURSIVE TotalOutcomes(_, _)
TotalOutcomes(groups, ms) ==
    IF ms = {} THEN 0
    ELSE LET m == CHOOSE x \in ms : TRUE
         IN  Len(groups[m]) + TotalOutcomes(groups, ms \ {m})

(* domain_calibrator.py line 50.                                           *)
MeanOf(briers) == RDiv(RSumSeq(briers), R(Len(briers), 1))

(* domain_calibrator.py lines 33-46: the outcomes of the last 90 days are  *)
(* read and grouped.                                                       *)
CrStart(groups) ==
    /\ CalStart(TotalOutcomes(groups, Models))
    /\ calRun' = [groups |-> groups, before |-> calibration_state]
    /\ UNCHANGED calLatest

(* domain_calibrator.py lines 48-57 for the group of `model`.              *)
CrGroup(model) ==
    /\ calRun.groups[model] # <<>>
    /\ CalGroup(model, calRun.groups[model])
    /\ calLatest' =
          IF Len(calRun.groups[model]) < 3 THEN calLatest
          ELSE [calLatest EXCEPT ![model] =
                   [brier |-> MeanOf(calRun.groups[model]),
                    weight |-> _brier_to_weight(MeanOf(calRun.groups[model]))]]
    /\ UNCHANGED calRun

(* domain_calibrator.py line 48: every group has had its turn.             *)
CrReturn ==
    /\ \A m \in Models : calRun.groups[m] # <<>> => m \in calPc.done
    /\ CalReturn
    /\ UNCHANGED <<calRun, calLatest>>

-----------------------------------------------------------------------------
Init ==
    /\ SchedQuiet /\ ResQuiet /\ SelQuiet /\ PipeQuiet /\ EnsQuiet /\ PromptQuiet /\ TradeQuiet
    /\ FrQuiet /\ SemQuiet /\ CalQuiet /\ AdaptQuiet /\ SizeQuiet
    /\ StoreQuiet
    /\ UpsertQuiet
    /\ DedupQuiet
    /\ PickQuiet
    /\ RoundQuiet
    /\ RlQuiet
    /\ SeedQuiet
    /\ FcQuiet
    /\ UnitQuiet
    /\ RefreshQuiet
    /\ CalRowsQuiet

Next ==
    \/ InitDb /\ UNCHANGED exceptSched
    \/ LoadState /\ UNCHANGED exceptSched
    \/ StartScheduler /\ UNCHANGED exceptSched
    \/ DirectScanDone /\ UNCHANGED exceptSched
    \/ DirectForecastDone /\ UNCHANGED exceptSched
    \/ \E j \in Jobs : Fire(j) /\ UNCHANGED exceptSched
    \/ \E j \in Jobs : JobDone(j) /\ UNCHANGED exceptSched
    \/ \E j \in Jobs : JobRaises(j) /\ UNCHANGED exceptSched
    \/ \E j \in Jobs : DirectRaises(j) /\ UNCHANGED exceptSched
    \/ Shutdown /\ UNCHANGED exceptSched

Spec == Init /\ [][Next]_vars

InitResolve ==
    /\ SchedQuiet /\ ResQuiet /\ SelQuiet /\ PipeQuiet /\ EnsQuiet /\ PromptQuiet /\ TradeQuiet
    /\ FrQuiet /\ SemQuiet /\ CalQuiet /\ AdaptQuiet /\ SizeQuiet
    /\ StoreQuiet
    /\ UpsertQuiet
    /\ DedupQuiet
    /\ PickQuiet
    /\ RoundQuiet
    /\ RlQuiet
    /\ SeedQuiet
    /\ FcQuiet
    /\ UnitQuiet
    /\ RefreshQuiet
    /\ CalRowsQuiet

NextResolve ==
    \/ ResStart /\ UNCHANGED exceptRes
    \/ \E n \in 0..MaxNewOutcomes : ResTrackerReturns(n) /\ UNCHANGED exceptRes
    \/ ResTrackerRaises /\ UNCHANGED exceptRes
    \/ ResCalibrationReturns /\ UNCHANGED exceptRes
    \/ ResThresholdReturns /\ UNCHANGED exceptRes
    \/ ResLearningRaises /\ UNCHANGED exceptRes
    \/ ResEnd /\ UNCHANGED exceptRes

SpecResolve == InitResolve /\ [][NextResolve]_vars

SelInit ==
    /\ mwStore \in StoresAtStart
    /\ selPc = "idle"
    /\ selStats = [m \in Models |-> NoSamples]
    /\ selW = [m \in Models |-> Absent]
    /\ selIdx = 0
    /\ selRuns = 0

InitSelect ==
    /\ SchedQuiet /\ ResQuiet /\ SelInit /\ PipeQuiet /\ EnsQuiet /\ PromptQuiet /\ TradeQuiet
    /\ FrQuiet /\ SemQuiet /\ CalQuiet /\ AdaptQuiet /\ SizeQuiet
    /\ StoreQuiet
    /\ UpsertQuiet
    /\ DedupQuiet
    /\ PickQuiet
    /\ RoundQuiet
    /\ RlQuiet
    /\ SeedQuiet
    /\ FcQuiet
    /\ UnitQuiet
    /\ RefreshQuiet
    /\ CalRowsQuiet

NextSelect ==
    \/ \E stats \in [Models -> {NoSamples} \cup BrierValues] :
          SelStart(stats) /\ UNCHANGED exceptSel
    \/ SelScore /\ UNCHANGED exceptSel
    \/ SelPersist /\ UNCHANGED exceptSel
    \/ SelEnd /\ UNCHANGED exceptSel
    \/ PipeStart /\ UNCHANGED exceptPipe
    \/ PipeLoadWeights /\ UNCHANGED exceptPipe
    \/ \E fc \in SUBSET Models : PipeForecast(fc) /\ UNCHANGED exceptPipe
    \/ PipeStore /\ UNCHANGED exceptPipe
    \/ PipeEnd /\ UNCHANGED exceptPipe

SpecSelect == InitSelect /\ [][NextSelect]_vars

-----------------------------------------------------------------------------
(* C3: for each of the six jobs, never two executions of the same job in   *)
(* flight at once, the executions main_loop starts directly included.      *)
C3_NoSelfOverlap == \A j \in Jobs : InFlight(j) <= 1

(* C12: an exception raised in the body of a job is caught inside the job: *)
(* the run ends normally, no exception reaches the scheduler (nor, for the *)
(* runs main_loop awaits itself, main_loop), and afterwards a fire of any  *)
(* of the six jobs that finds no run of that job submitted by the          *)
(* scheduler in flight still executes.                                     *)
C12_JobIsolation ==
    /\ ~schedSawError
    /\ mainPc # "crashed"
    /\ \A j \in Jobs :
          (schedRunning /\ inst[j] < max_instances) =>
              ENABLED (/\ Fire(j)
                       /\ inst'[j] = inst[j] + 1
                       /\ UNCHANGED exceptSched)

(* C12 witness: check_resolutions raised and was caught, and a later fire  *)
(* of it is running, next to a run of self_improvement.                    *)
C12_Witness ==
    /\ lastRaised = "check_resolutions"
    /\ inst["check_resolutions"] = 1
    /\ lastFire["check_resolutions"] = "ran"
    /\ inst["self_improvement"] = 1
    /\ ~schedSawError

(* C13 as stated: no scheduler-triggered job execution starts before       *)
(* main_loop has initialised the store, loaded the state and fired the     *)
(* startup scan and then the startup forecast run.                         *)
C13_StartupBeforeScheduling ==
    \A j \in Jobs :
        (inst[j] > 0 \/ lastFire[j] = "ran") =>
            mainPc \in {"forecast", "sleep", "stopped"}

-----------------------------------------------------------------------------
(* C4 as stated: at the end of every check_resolutions run that added its  *)
(* new outcomes to the counter, a counter at or above LEARNING_BATCH_SIZE  *)
(* means the run invoked domain calibration, then threshold adaptation,    *)
(* nothing else, and left the counter at 0; a counter below it means the   *)
(* run invoked no learning function and the counter kept its value.        *)
C4_AsStated ==
    (resPc = "done" /\ resAdded >= 0) =>
        IF resAdded >= LEARNING_BATCH_SIZE
        THEN /\ resCalls = <<"run_calibration", "run_threshold_adaptation">>
             /\ outcomeCount = 0
        ELSE /\ resCalls = <<>>
             /\ outcomeCount = resAdded

(* C4 amended: as C4, except that when domain calibration or threshold     *)
(* adaptation raises, the rest of the cycle is not run and the counter     *)
(* keeps its accumulated value instead of being reset. Model selection is  *)
(* never invoked.                                                          *)
C4_BatchTrigger ==
    (resPc = "done" /\ resAdded >= 0) =>
        /\ \A i \in 1..Len(resCalls) : resCalls[i] # "run_model_selection"
        /\ IF resAdded >= LEARNING_BATCH_SIZE
           THEN IF resRaised
                THEN /\ resCalls \in {<<"run_calibration">>,
                                      <<"run_calibration", "run_threshold_adaptation">>}
                     /\ outcomeCount = resAdded
                ELSE /\ resCalls = <<"run_calibration", "run_threshold_adaptation">>
                     /\ outcomeCount = 0
           ELSE /\ resCalls = <<>>
                /\ outcomeCount = resAdded
                /\ ~resRaised

(* C4 witness: a run that reached the batch size exactly, ran both         *)
(* learning steps and reset the counter.                                   *)
C4_Witness ==
    /\ resPc = "done"
    /\ resAdded = LEARNING_BATCH_SIZE
    /\ resCalls = <<"run_calibration", "run_threshold_adaptation">>
    /\ outcomeCount = 0

(* The inputs of one pipeline run: what each provider answers, the        *)
(* weights loaded at step 5 and the domain's threshold.                    *)
InitEnsemble ==
    /\ SchedQuiet /\ ResQuiet /\ SelQuiet /\ PipeQuiet /\ PromptQuiet /\ TradeQuiet
    /\ FrQuiet /\ SemQuiet /\ CalQuiet /\ AdaptQuiet /\ SizeQuiet
    /\ StoreQuiet
    /\ UpsertQuiet
    /\ DedupQuiet
    /\ PickQuiet
    /\ RoundQuiet
    /\ RlQuiet
    /\ SeedQuiet
    /\ FcQuiet
    /\ UnitQuiet
    /\ RefreshQuiet
    /\ CalRowsQuiet
    /\ ensPc = "start"
    /\ ensText \in [Models -> Texts \cup {NoResponse}]
    /\ ensLogprobs \in [Models -> LogprobPayloads]
    /\ ensLogprobs["claude-sonnet-4-6"] = <<>>
    /\ ensLogprobs["deepseek-chat"] \in {<<>>, <<R(-2, 1)>>}
    /\ ensMW \in [Models -> {Zero, One}]
    /\ ensDW \in {[m \in Models |-> Absent],
                  [m \in Models |-> IF m = "gpt-4.1" THEN R(3, 10) ELSE Absent]}
    /\ ensTau \in {Absent, R(3, 1)}
    /\ ensForecasts = <<>>
    /\ ensOut = [prob |-> Absent, entropy |-> Absent, tier |-> "none"]
    /\ ensRows = <<>>

NextEnsemble ==
    \/ EnsForecast /\ UNCHANGED exceptEns
    \/ EnsCombine /\ UNCHANGED exceptEns
    \/ EnsStore /\ UNCHANGED exceptEns
    \/ EnsTrade /\ UNCHANGED exceptEns

SpecEnsemble == InitEnsemble /\ [][NextEnsemble]_vars

InitPrompt ==
    /\ SchedQuiet /\ ResQuiet /\ SelQuiet /\ PipeQuiet /\ EnsQuiet /\ PromptQuiet /\ TradeQuiet
    /\ FrQuiet /\ SemQuiet /\ CalQuiet /\ AdaptQuiet /\ SizeQuiet
    /\ StoreQuiet
    /\ UpsertQuiet
    /\ DedupQuiet
    /\ PickQuiet
    /\ RoundQuiet
    /\ RlQuiet
    /\ SeedQuiet
    /\ FcQuiet
    /\ UnitQuiet
    /\ RefreshQuiet
    /\ CalRowsQuiet

NextPrompt ==
    \/ \E domain \in Domains \cup {NullDomain} :
         \E stats \in [get_active_prompts(promptTable, domain) -> VariantStats] :
            RoundEvaluate(domain, stats) /\ UNCHANGED exceptPrompt
    \/ \E evolved \in EvolverAnswers(promptTable) :
            RoundGenerate(evolved) /\ UNCHANGED exceptPrompt

SpecPrompt == InitPrompt /\ [][NextPrompt]_vars

InitTrade ==
    /\ SchedQuiet /\ ResQuiet /\ SelQuiet /\ PipeQuiet /\ EnsQuiet /\ PromptQuiet
    /\ FrQuiet /\ SemQuiet /\ CalQuiet /\ AdaptQuiet /\ SizeQuiet
    /\ StoreQuiet
    /\ UpsertQuiet
    /\ DedupQuiet
    /\ PickQuiet
    /\ RoundQuiet
    /\ RlQuiet
    /\ SeedQuiet
    /\ FcQuiet
    /\ UnitQuiet
    /\ RefreshQuiet
    /\ CalRowsQuiet
    /\ trPrice \in [Markets -> PriceValues]
    /\ trForecasted = [m \in Markets |-> FALSE]
    /\ trPaper \in BOOLEAN
    /\ trOpenElsewhere \in OpenElsewhere
    /\ trades = <<>>
    /\ cash \in CashAtStart
    /\ run = [r \in Runners |-> Idle("waiting", {})]
    /\ trDecisions = <<>>
    /\ cashStart = cash
    /\ trRaised = {}

NextTrade ==
    \/ \E r \in Runners : TrRunStart(r) /\ UNCHANGED exceptTrade
    \/ \E r \in Runners, m \in Markets : TrNoForecast(r, m) /\ UNCHANGED exceptTrade
    \/ \E r \in Runners, m \in Markets, intent \in Intents :
          TrForecast(r, m, intent) /\ UNCHANGED exceptTrade
    \/ \E r \in Runners : TrCountOpen(r) /\ UNCHANGED exceptTrade
    \/ \E r \in Runners : TrHasPosition(r) /\ UNCHANGED exceptTrade
    \/ \E r \in Runners : TrGetCash(r) /\ UNCHANGED exceptTrade
    \/ \E r \in Runners, placed \in BOOLEAN :
          TrPlaceOrder(r, placed) /\ UNCHANGED exceptTrade
    \/ \E r \in Runners : TrInsert(r) /\ UNCHANGED exceptTrade
    \/ \E r \in Runners : TrDeductRead(r) /\ UNCHANGED exceptTrade
    \/ \E r \in Runners : TrDeductWrite(r) /\ UNCHANGED exceptTrade

SpecTrade == InitTrade /\ [][NextTrade]_vars

-----------------------------------------------------------------------------
(* Model selection (SpecSelect)                                            *)

Killed(m) == selStats[m] # NoSamples /\ RLt(MODEL_KILL_BRIER, selStats[m])

(* C5 as stated: after every completed run_model_selection, for every      *)
(* outcome history (every model killed, some models without samples), the  *)
(* persisted roster weights that are > 0 sum to 1.                         *)
C5_AsStated == selPc = "done" => SumPositive(mwStore, Models) = One

(* C5, amended: after a completed run_model_selection the persisted roster *)
(* weights that are > 0 sum to 1 when at least one roster model ends the   *)
(* run with a positive weight, which is the case whenever some model has   *)
(* samples with mean Brier <= MODEL_KILL_BRIER; when none does (each model *)
(* killed, or kept at a stored 0), every persisted roster weight is 0.     *)
C5_PositiveWeightsSumToOne ==
    selPc = "done" =>
        /\ \/ SumPositive(mwStore, Models) = One
           \/ \A m \in Models : mwStore[m] = Zero
        /\ (\E m \in Models : selStats[m] # NoSamples /\ ~Killed(m))
               => SumPositive(mwStore, Models) = One
        /\ (\A m \in Models : Killed(m))
               => \A m \in Models : mwStore[m] = Zero

C5_Witness ==
    /\ selPc = "done"
    /\ Killed("claude-sonnet-4-6")
    /\ selStats["gpt-4.1"] = NoSamples
    /\ selStats["deepseek-chat"] = R(1, 10)
    /\ SumPositive(mwStore, Models) = One
    /\ mwStore["claude-sonnet-4-6"] = Zero

(* C6 as stated: a model whose 30-day mean Brier exceeds MODEL_KILL_BRIER  *)
(* has persisted weight 0 when run_model_selection finishes, and a         *)
(* pipeline run that starts while a model's stored weight is 0 does not    *)
(* call it, inserts no Forecast row for it and takes nothing from it into  *)
(* the ensemble.                                                           *)
C6_AsStated ==
    /\ selPc = "done" => \A m \in Models : Killed(m) => mwStore[m] = Zero
    /\ \A m \in pipeZeroAtStart :
           m \notin pipeCalled /\ m \notin pipeRows /\ m \notin pipeContrib

(* C6, amended: a model whose 30-day mean Brier exceeds MODEL_KILL_BRIER   *)
(* has persisted weight 0 when run_model_selection finishes, and a         *)
(* pipeline run that loads the model weights (step 5) while a model's      *)
(* stored weight is 0 does not call it, inserts no Forecast row for it and *)
(* takes nothing from it into the ensemble.                                *)
C6_KilledModelExcluded ==
    /\ selPc = "done" => \A m \in Models : Killed(m) => mwStore[m] = Zero
    /\ \A m \in pipeZeroAtLoad :
           m \notin pipeCalled /\ m \notin pipeRows /\ m \notin pipeContrib

C6_Witness ==
    /\ selPc = "done"
    /\ Killed("claude-sonnet-4-6")
    /\ pipePc = "done"
    /\ "claude-sonnet-4-6" \in pipeZeroAtLoad
    /\ pipeCalled = Models \ {"claude-sonnet-4-6"}
    /\ pipeRows # {}

-----------------------------------------------------------------------------
(* Forecasts, ensemble and Forecast rows (SpecEnsemble)                    *)

DomainTau == IF ensTau = Absent THEN ENTROPY_THRESHOLD_DEFAULT ELSE ensTau

(* C7 as stated: for every Forecast row inserted by _process_market, with  *)
(* tau the entropy threshold of the market's domain, the row's             *)
(* confidence_tier is high iff the row's entropy <= tau, medium iff        *)
(* tau < entropy <= 1.5 tau, and low otherwise.                            *)
C7_RowTierFromRowEntropy ==
    \A i \in 1..Len(ensRows) :
        LET row == ensRows[i]
            medium_tau == RMul(DomainTau, R(3, 2))
        IN  /\ row.confidence_tier = "high" <=> RLe(row.entropy, DomainTau)
            /\ row.confidence_tier = "medium" <=>
                   (RLt(DomainTau, row.entropy) /\ RLe(row.entropy, medium_tau))
            /\ row.confidence_tier = "low" <=> RLt(medium_tau, row.entropy)

(* C8 as stated: for every non-empty list of forecasts the forecaster can  *)
(* return and any stored weights, ensemble.combine returns a probability   *)
(* in [0,1] and an entropy >= 0.                                           *)
C8_EnsembleInRange ==
    ensPc \in {"combined", "stored", "traded"} =>
        /\ RLe(Zero, ensOut.prob) /\ RLe(ensOut.prob, One)
        /\ RLe(Zero, ensOut.entropy)

(* C11: when the weights loaded by the pipeline are 0 for every roster     *)
(* model, the pipeline of the market inserts no Forecast row and never     *)
(* reaches maybe_trade (it ends at the empty forecast list), and           *)
(* ensemble.combine on the empty forecast list is (0.5, 6.0, low).         *)
C11_NoActiveModel ==
    (\A m \in Models : ensMW[m] = Zero) =>
        /\ ensPc \in {"start", "ended"}
        /\ ensForecasts = <<>>
        /\ ensRows = <<>>
        /\ combine(<<>>, ensMW, ensDW, ensTau) =
               [prob |-> R(1, 2), entropy |-> R(6, 1), tier |-> "low"]

(* C11 witness: every model would have answered, every weight is 0, and    *)
(* the pipeline has ended.                                                 *)
C11_Witness ==
    /\ \A m \in Models : ensMW[m] = Zero /\ ensText[m] # NoResponse
    /\ ensPc = "ended"

-----------------------------------------------------------------------------
(* Prompt tournament (SpecPrompt)                                          *)

ActiveOfDomain(d) ==
    {v \in Versions : promptTable[v].active = 1 /\ promptTable[v].domain = d}

(* C9 as stated: after every completed run_prompt_tournament round (any    *)
(* domain argument, the evolver returning any text), each domain has at    *)
(* most MAX_VARIANTS_PER_DOMAIN active variants, and so has the NULL       *)
(* domain.                                                                 *)
C9_AtMostThreeActive ==
    promptPc = "idle" =>
    \A d \in Domains \cup {NullDomain} :
        Cardinality(ActiveOfDomain(d)) <= MAX_VARIANTS_PER_DOMAIN

-----------------------------------------------------------------------------
(* Trading (SpecTrade)                                                     *)

(* C1: whenever maybe_trade writes a Trade row (paper or live), the values *)
(* it evaluated for that decision satisfy edge >= MIN_EDGE, tier high,     *)
(* domain weight >= 0.5, open-position count < MAX_OPEN_POSITIONS, and     *)
(* has_position found no Trade row for the market.                         *)
C1_WriteImpliesTradeable ==
    /\ Len(trDecisions) = Len(trades)
    /\ \A i \in 1..Len(trDecisions) :
          LET d == trDecisions[i]
          IN  /\ RLe(MIN_EDGE, d.edge)
              /\ d.edge = trades[i].edge
              /\ d.tier = "high"
              /\ RLe(R(1, 2), d.dw)
              /\ d.open_count < MAX_OPEN_POSITIONS
              /\ ~d.had_position

C1_Witness ==
    /\ Len(trades) = 2
    /\ trades[1].is_paper = 0
    /\ trades[1].market_id # trades[2].market_id
    /\ trDecisions[1].open_count = 0
    /\ trDecisions[2].open_count = 1
    /\ \A r \in Runners : run[r].pc = "finished"

(* C2 as stated: in every reachable state the table trades holds at most   *)
(* one row per market_id, for every interleaving of the jobs at their      *)
(* awaits, the startup run_forecasts overlapping a scheduled one included. *)
C2_OneTradePerMarket ==
    \A m \in Markets :
        Cardinality({i \in 1..Len(trades) : trades[i].market_id = m}) <= 1

(* C10 as stated: for a market whose YES price is 0 or 1 maybe_trade       *)
(* writes no Trade row and leaves cash unchanged, whatever the ensemble    *)
(* probability, tier and domain weight are.                                *)
C10_DegeneratePriceRejected ==
    /\ \A m \in Markets : trPrice[m] \in {Zero, One} => ~has_position(m)
    /\ (\A m \in Markets : trPrice[m] \in {Zero, One}) => cash = cashStart

-----------------------------------------------------------------------------
(* The fire of run_forecasts, the semaphore, the calibrator and the        *)
(* threshold adapter, each on its own.                                     *)

InitForecastRun ==
    /\ SchedQuiet /\ ResQuiet /\ SelQuiet /\ PipeQuiet /\ EnsQuiet /\ PromptQuiet /\ TradeQuiet
    /\ FrQuiet /\ SemQuiet /\ CalQuiet /\ AdaptQuiet /\ SizeQuiet
    /\ StoreQuiet
    /\ UpsertQuiet
    /\ DedupQuiet
    /\ PickQuiet
    /\ RoundQuiet
    /\ RlQuiet
    /\ SeedQuiet
    /\ FcQuiet
    /\ UnitQuiet
    /\ RefreshQuiet
    /\ CalRowsQuiet

NextForecastRun ==
    \/ \E snapshot \in Snapshots : FrList(snapshot) /\ UNCHANGED exceptFr
    \/ FrListRaises /\ UNCHANGED exceptFr
    \/ FrSkipClassify /\ UNCHANGED exceptFr
    \/ \E empty \in BOOLEAN : FrStepReturns(empty) /\ UNCHANGED exceptFr
    \/ FrStepRaises /\ UNCHANGED exceptFr

(* Every await of the fire returns or raises: the event loop resumes the   *)
(* coroutine, and the fire takes its next step.                            *)
SpecForecastRun ==
    InitForecastRun /\ [][NextForecastRun]_vars /\ WF_vars(NextForecastRun)

InitSemaphore ==
    /\ SchedQuiet /\ ResQuiet /\ SelQuiet /\ PipeQuiet /\ EnsQuiet /\ PromptQuiet /\ TradeQuiet
    /\ FrQuiet /\ SemQuiet /\ CalQuiet /\ AdaptQuiet /\ SizeQuiet
    /\ StoreQuiet
    /\ UpsertQuiet
    /\ DedupQuiet
    /\ PickQuiet
    /\ RoundQuiet
    /\ RlQuiet
    /\ SeedQuiet
    /\ FcQuiet
    /\ UnitQuiet
    /\ RefreshQuiet
    /\ CalRowsQuiet

NextSemaphore ==
    \/ \E p \in Runners, active \in SUBSET Models :
          SemSpawn(p, active) /\ UNCHANGED exceptSem
    \/ \E t \in Tasks : SemAcquire(t) /\ UNCHANGED exceptSem
    \/ \E t \in Tasks, outcome \in {"result", "none", "raised"} :
          SemCallEnds(t, outcome) /\ UNCHANGED exceptSem
    \/ \E p \in Runners : SemGather(p) /\ UNCHANGED exceptSem

SpecSemaphore == InitSemaphore /\ [][NextSemaphore]_vars

InitCalibration ==
    /\ SchedQuiet /\ ResQuiet /\ SelQuiet /\ PipeQuiet /\ EnsQuiet /\ PromptQuiet /\ TradeQuiet
    /\ FrQuiet /\ SemQuiet /\ CalQuiet /\ AdaptQuiet /\ SizeQuiet
    /\ StoreQuiet
    /\ UpsertQuiet
    /\ DedupQuiet
    /\ PickQuiet
    /\ RoundQuiet
    /\ RlQuiet
    /\ SeedQuiet
    /\ FcQuiet
    /\ UnitQuiet
    /\ RefreshQuiet
    /\ CalRowsQuiet

NextCalibration ==
    \/ \E n_outcomes \in {LEARNING_BATCH_SIZE - 1, LEARNING_BATCH_SIZE} :
          CalStart(n_outcomes) /\ UNCHANGED exceptCal
    \/ \E model \in Models, briers \in BrierLists :
          CalGroup(model, briers) /\ UNCHANGED exceptCal
    \/ CalReturn /\ UNCHANGED exceptCal
    \/ CalAgain /\ UNCHANGED exceptCal

SpecCalibration == InitCalibration /\ [][NextCalibration]_vars

InitThreshold ==
    /\ SchedQuiet /\ ResQuiet /\ SelQuiet /\ PipeQuiet /\ EnsQuiet /\ PromptQuiet /\ TradeQuiet
    /\ FrQuiet /\ SemQuiet /\ AdaptQuiet /\ SizeQuiet /\ StoreQuiet
    /\ UpsertQuiet
    /\ DedupQuiet
    /\ PickQuiet
    /\ RoundQuiet
    /\ RlQuiet
    /\ SeedQuiet
    /\ FcQuiet
    /\ UnitQuiet
    /\ RefreshQuiet
    /\ CalRowsQuiet
    /\ calibration_state \in CalTablesAtStart
    /\ calPc = [pc |-> "idle", done |-> {}]

NextThreshold ==
    \/ \E r \in AdaptRunners, points \in PointSets :
          AdRead(r, points) /\ UNCHANGED exceptCal
    \/ \E r \in AdaptRunners : AdGetState(r) /\ UNCHANGED exceptCal
    \/ \E r \in AdaptRunners : AdUpsert(r) /\ UNCHANGED exceptCal

SpecThreshold == InitThreshold /\ [][NextThreshold]_vars

(* C14: within one fire of run_forecasts, a step of a market's pipeline    *)
(* that raises is the last step run for that market, and no trade is       *)
(* attempted for it; the markets of the fire's list are processed in the   *)
(* order of the list, all of them by the time the fire ends; and the fire  *)
(* ends.                                                                   *)
C14_RaiseSkipsOnlyThatMarket ==
    /\ [](\A m \in ForecastMarkets : frRaisedAt[m] # "none" =>
             /\ frSteps[m][Len(frSteps[m])] = frRaisedAt[m]
             /\ \A i \in 1..(Len(frSteps[m]) - 1) : frSteps[m][i] # "maybe_trade")
    /\ [](/\ Len(frOrder) <= Len(frSnapshot)
          /\ \A i \in 1..Len(frOrder) : frOrder[i] = frSnapshot[i])
    /\ [](frPc = "finished" => frOrder = frSnapshot)
    /\ <>(frPc = "finished")

(* A fire over three markets has ended: the first market's pipeline raised *)
(* in its news step, the second ran to its trade step, the third raised    *)
(* when it stored its forecasts.                                           *)
C14_Witness ==
    /\ frPc = "finished"
    /\ Len(frSnapshot) = 3
    /\ frRaisedAt[frSnapshot[1]] = "news"
    /\ frRaisedAt[frSnapshot[2]] = "none"
    /\ frSteps[frSnapshot[2]][Len(frSteps[frSnapshot[2]])] = "maybe_trade"
    /\ frRaisedAt[frSnapshot[3]] = "store"

(* C15: at every moment at most LLM_CONCURRENCY provider calls of the      *)
(* forecaster are in flight over all pipelines; each call in flight holds  *)
(* one permit, and a call that has ended, however it ended, has given its  *)
(* permit back: free permits and calls in flight always add up to          *)
(* LLM_CONCURRENCY.                                                        *)
C15_PermitsBoundCalls ==
    /\ Cardinality(CallsInFlight) <= LLM_CONCURRENCY
    /\ semValue >= 0
    /\ semCreated => semValue + Cardinality(CallsInFlight) = LLM_CONCURRENCY
    /\ ~semCreated => CallsInFlight = {}

(* Three calls are in flight, a fourth task waits for a permit, and calls  *)
(* have already ended by raising and by returning None.                    *)
C15_Witness ==
    /\ Cardinality(CallsInFlight) = LLM_CONCURRENCY
    /\ semValue = 0
    /\ \E t \in Tasks : semTask[t] = "waiting"
    /\ \E t \in Tasks : semTask[t] = "raised"
    /\ \E t \in Tasks : semTask[t] = "none"

(* C16: every calibration row holds the domain weight of its mean Brier b: *)
(* 1.5 if b < 0.15, 1.2 if 0.15 <= b < 0.20, 1.0 if 0.20 <= b < 0.25, 0.7  *)
(* if 0.25 <= b < 0.28 and 0.3 if b >= 0.28; so the weight is one of these *)
(* five values and lies in [0.3, 1.5].                                     *)
C16_WeightStepFunction ==
    \A m \in Models : calibration_state[m].present =>
        LET b == calibration_state[m].brier
            w == calibration_state[m].weight
        IN  /\ w = (IF RLt(b, R(15, 100)) THEN R(15, 10)
                    ELSE IF RLt(b, R(20, 100)) THEN R(12, 10)
                    ELSE IF RLt(b, R(25, 100)) THEN One
                    ELSE IF RLt(b, R(28, 100)) THEN R(7, 10)
                    ELSE R(3, 10))
            /\ w \in {R(15, 10), R(12, 10), One, R(7, 10), R(3, 10)}
            /\ RLe(R(3, 10), w) /\ RLe(w, R(15, 10))

(* C17: a run that found at least MIN_OUTCOMES_FOR_ADAPTATION pairs for    *)
(* the domain, at current threshold tau and with                           *)
(* sep = P(correct | entropy < tau) - P(correct | entropy >= tau), has     *)
(* the new threshold max(1, tau - 0.25) if sep > 0.10, min(8, tau + 0.25)  *)
(* if sep < 0.05, and tau otherwise; a run that found fewer pairs has no   *)
(* new threshold; and every threshold in the table lies in [1, 8].         *)
C17_ThresholdRule ==
    /\ \A r \in AdaptRunners : adRun[r].pc # "idle" =>
          LET points == adRun[r].points
              tau == adRun[r].tau
              below == BelowTau(points, tau)
              above == AboveTau(points, tau)
              defined == below[1] > 0 /\ above[1] > 0
              sep == RSub(R(below[2], below[1]), R(above[2], above[1]))
          IN  IF NumPoints(points) < 20
              THEN adRun[r].new_tau = Absent
              ELSE adRun[r].new_tau =
                      (IF defined /\ RLt(R(10, 100), sep)
                       THEN RMax(R(1, 1), RSub(tau, R(25, 100)))
                       ELSE IF defined /\ RLt(sep, R(5, 100))
                       THEN RMin(R(8, 1), RAdd(tau, R(25, 100)))
                       ELSE tau)
    /\ \A m \in Models :
          (calibration_state[m].present /\ calibration_state[m].tau # Absent) =>
              /\ RLe(R(1, 1), calibration_state[m].tau)
              /\ RLe(calibration_state[m].tau, R(8, 1))

(* C18: when a run of run_threshold_adaptation that adapted the domain to  *)
(* a new threshold returns, every calibration row of the domain holds that *)
(* threshold, and the threshold the next pipeline derives from the rows is *)
(* that threshold.                                                         *)
C18_AllRowsCarryNewThreshold ==
    [][\A r \in AdaptRunners :
          (adRun[r].pc # "done" /\ adRun'[r].pc = "done"
           /\ adRun'[r].new_tau # Absent) =>
              /\ \A m \in Models : calibration_state'[m].present =>
                    calibration_state'[m].tau = adRun'[r].new_tau
              /\ build_domain_thresholds(calibration_state') = adRun'[r].new_tau]_vars

(* C19: in live mode a maybe_trade whose place_order raised writes no      *)
(* Trade row and deducts no cash: it has returned without a trade id when  *)
(* the order raises, so no run is at its insert or its deduction for an    *)
(* order of its own that raised, the rows of a market are no more than the *)
(* runs whose order for it did not raise, and cash is untouched while      *)
(* there is no row.                                                        *)
C19_FailedOrderWritesNothing ==
    ~trPaper =>
        /\ \A r \in Runners :
              run[r].pc \in {"insert", "deduct_read", "deduct_write"} =>
                  <<r, run[r].market>> \notin trRaised
        /\ \A m \in Markets :
              Cardinality({i \in 1..Len(trades) : trades[i].market_id = m})
                 <= Cardinality({r \in Runners : <<r, m>> \notin trRaised})
        /\ trades = <<>> => cash = cashStart

(* Live mode: the order for one market raised, in both runs that tried it, *)
(* and the order for the other market was placed; the runs have ended with *)
(* the one row of the placed order and its cost deducted.                  *)
C19_Witness ==
    /\ ~trPaper
    /\ \A r \in Runners : run[r].pc = "finished"
    /\ \A r \in Runners : <<r, "m1">> \in trRaised
    /\ Len(trades) = 1
    /\ trades[1].market_id = "m2"
    /\ trades[1].is_paper = 0
    /\ cash = RSub(cashStart, RMul(trades[1].size_units, trades[1].price))

(* C20: whenever no maybe_trade call is in progress, cash equals the cash  *)
(* the process started with minus the sum of size_units * price over the   *)
(* Trade rows written since; and cash is never negative.                   *)
C20_CashMatchesTrades ==
    /\ RLe(Zero, cash)
    /\ (\A r \in Runners : run[r].pc \in {"waiting", "next", "finished"}) =>
          cash = RSub(cashStart,
                      RSumSeq([i \in 1..Len(trades) |->
                                  RMul(trades[i].size_units, trades[i].price)]))

-----------------------------------------------------------------------------
(* Sizing of one trade from a price and a probability.                     *)

InitSizing ==
    /\ SchedQuiet /\ ResQuiet /\ SelQuiet /\ PipeQuiet /\ EnsQuiet /\ PromptQuiet /\ TradeQuiet
    /\ FrQuiet /\ SemQuiet /\ CalQuiet /\ AdaptQuiet /\ StoreQuiet
    /\ UpsertQuiet
    /\ DedupQuiet
    /\ PickQuiet
    /\ RoundQuiet
    /\ RlQuiet
    /\ SeedQuiet
    /\ FcQuiet
    /\ UnitQuiet
    /\ RefreshQuiet
    /\ CalRowsQuiet
    /\ szPrice \in SizingGrid
    /\ szProb \in SizingGrid
    /\ szOut = NoSizing

NextSizing ==
    \/ SzSize /\ UNCHANGED exceptSize
    \/ SzAgain /\ UNCHANGED exceptSize

SpecSizing == InitSizing /\ [][NextSizing]_vars

SizedExample ==
    /\ szPrice = R(80, 100)
    /\ szProb = R(55, 100)
    /\ szOut # NoSizing

(* C21: for market price 0.80 and ensemble probability 0.55 the side is NO *)
(* with edge 0.25 and NO price 0.20; kelly_fraction's full Kelly is        *)
(* 0.25 / (1 - 0.20) = 0.3125, its fractional Kelly before the cap is      *)
(* 0.078125, and the cap makes the result 0.05.                            *)
C21_KellyExample ==
    SizedExample =>
        /\ szOut.side = "NO"
        /\ szOut.edge = R(25, 100)
        /\ szOut.price = R(20, 100)
        /\ szOut.full_kelly = R(3125, 10000)
        /\ szOut.fk = R(78125, 1000000)
        /\ szOut.frac = R(5, 100)

C21_Witness == SizedExample /\ szOut.frac = MAX_POSITION_PCT

(* C21 as stated: full Kelly 1.25 and fractional Kelly 0.3125 before the   *)
(* cap.                                                                    *)
C21_AsStated ==
    SizedExample =>
        /\ szOut.side = "NO"
        /\ szOut.edge = R(25, 100)
        /\ szOut.full_kelly = R(125, 100)
        /\ szOut.fk = R(3125, 10000)
        /\ szOut.frac = R(5, 100)

-----------------------------------------------------------------------------
(* The outcome tracker beside a scan, over a store that already holds the  *)
(* markets and their forecasts.                                            *)

InitTracker ==
    /\ SchedQuiet /\ ResQuiet /\ SelQuiet /\ PipeQuiet /\ EnsQuiet /\ PromptQuiet /\ TradeQuiet
    /\ FrQuiet /\ SemQuiet /\ CalQuiet /\ AdaptQuiet /\ SizeQuiet
    /\ UpsertQuiet
    /\ DedupQuiet
    /\ PickQuiet
    /\ RoundQuiet
    /\ RlQuiet
    /\ SeedQuiet
    /\ FcQuiet
    /\ UnitQuiet
    /\ RefreshQuiet
    /\ CalRowsQuiet
    /\ markets = [m \in Markets |-> ListedMarket(m, R(1, 2), Null, Null)]
    /\ forecastRows \in ForecastTables
    /\ outcomes = <<>>
    /\ venue = [m \in Markets |-> OpenAtVenue]
    /\ trk = TrkIdle
    /\ trkCounted = 0
    /\ trkRuns = 0
    /\ trkDropped = {}
    /\ scanPending = {}

NextTracker ==
    \/ \E m \in Markets, result \in VenueResults :
          VenueResolves(m, result) /\ UNCHANGED exceptStore
    \/ \E m \in Markets : VenueLookbackPasses(m) /\ UNCHANGED exceptStore
    \/ TrkFetch /\ UNCHANGED exceptStore
    \/ TrkDrop /\ UNCHANGED exceptStore
    \/ TrkMark /\ UNCHANGED exceptStore
    \/ TrkLoad /\ UNCHANGED exceptStore
    \/ TrkSkipForecast /\ UNCHANGED exceptStore
    \/ TrkInsertOutcome /\ UNCHANGED exceptStore
    \/ TrkNextMarket /\ UNCHANGED exceptStore
    \/ TrkReturn /\ UNCHANGED exceptStore
    \/ ScanFetch /\ UNCHANGED exceptStore
    \/ \E m \in Markets : ScanUpsert(m) /\ UNCHANGED exceptStore

SpecTracker == InitTracker /\ [][NextTracker]_vars

OutcomesOf(f) == {i \in 1..Len(outcomes) : outcomes[i].forecast_id = f}

(* C22: no Forecast has more than one Outcome row, and the sum of the      *)
(* counts added to the new-outcome counter equals the number of forecastRows  *)
(* that have an Outcome, whenever no check_resolutions run is in progress. *)
C22_OneOutcomePerForecast ==
    /\ \A f \in 1..Len(forecastRows) : Cardinality(OutcomesOf(f)) <= 1
    /\ trk.pc = "idle" =>
          trkCounted = Cardinality({f \in 1..Len(forecastRows) : OutcomesOf(f) # {}})

ResolvedHaveOutcome ==
    \A m \in Markets : markets[m].resolved = 1 => markets[m].outcome \in {0, 1}

VoidNeverRecorded ==
    \A m \in Markets :
        venue[m].result = "void" =>
            /\ markets[m].resolved = 0
            /\ \A i \in 1..Len(outcomes) : outcomes[i].market_id # m

(* Every market of the run's list before the current one was dropped for   *)
(* want of an outcome, or has an Outcome for each of its forecasts that    *)
(* carries a probability.                                                  *)
EarlierMarketsHandled ==
    trk.pc = "market" =>
        \A i \in 1..(trk.idx - 1) :
            \/ trk.list[i].outcome = NoOutcome
            \/ \A f \in 1..Len(forecastRows) :
                  (/\ forecastRows[f].market_id = trk.list[i].id
                   /\ forecastRows[f].raw_probability # Absent)
                      => OutcomesOf(f) # {}

DropGoesOn ==
    (/\ trk.pc = "market"
     /\ trk.idx <= Len(trk.list)
     /\ trk.list[trk.idx].outcome = NoOutcome
     /\ trk' # trk)
        => /\ trk'.pc = "market"
           /\ trk'.idx = trk.idx + 1
           /\ UNCHANGED <<markets, outcomes>>

(* C23: every market row with resolved = 1 has outcome 0 or 1; a market    *)
(* the venue reports resolved without an outcome is never marked resolved  *)
(* and gets no Outcome; the tracker's step at such a market only moves to  *)
(* the next market of the list, and the markets after it are handled.      *)
C23_ResolvedImpliesOutcome ==
    /\ [](ResolvedHaveOutcome /\ VoidNeverRecorded /\ EarlierMarketsHandled)
    /\ [][DropGoesOn]_vars

C23_Witness ==
    /\ "m1" \in trkDropped
    /\ trkRuns = 1
    /\ trk.pc = "idle"
    /\ markets["m2"].resolved = 1
    /\ OutcomesOf(3) # {}

SquaredError(p, y) == RMul(RSub(p, Int2R(y)), RSub(p, Int2R(y)))

(* C29: every Outcome row has brier = (predicted_prob - actual_outcome)^2, *)
(* its predicted_prob is the raw_probability of the Forecast it            *)
(* references, a forecast of the row's market, and its actual_outcome is   *)
(* the outcome the venue reported for that market.                         *)
C29_BrierIsSquaredError ==
    \A i \in 1..Len(outcomes) :
        LET o == outcomes[i]
        IN  /\ o.brier = SquaredError(o.predicted_prob, o.actual_outcome)
            /\ o.predicted_prob = forecastRows[o.forecast_id].raw_probability
            /\ forecastRows[o.forecast_id].market_id = o.market_id
            /\ o.actual_outcome = VenueOutcome(venue[o.market_id].result)
            /\ o.actual_outcome \in {0, 1}

C29_Witness ==
    \E i \in 1..Len(outcomes) :
        /\ outcomes[i].predicted_prob = R(7, 10)
        /\ outcomes[i].actual_outcome = 0
        /\ outcomes[i].brier = R(49, 100)

-----------------------------------------------------------------------------
(* Sequences of upsert_market calls on an empty markets table.             *)

InitUpsert ==
    /\ SchedQuiet /\ ResQuiet /\ SelQuiet /\ PipeQuiet /\ EnsQuiet /\ PromptQuiet /\ TradeQuiet
    /\ FrQuiet /\ SemQuiet /\ CalQuiet /\ AdaptQuiet /\ SizeQuiet
    /\ StoreQuiet
    /\ DedupQuiet
    /\ PickQuiet
    /\ RoundQuiet
    /\ RlQuiet
    /\ SeedQuiet
    /\ FcQuiet
    /\ UnitQuiet
    /\ RefreshQuiet
    /\ CalRowsQuiet
    /\ upCalls = [m \in Markets |-> <<>>]

NextUpsert ==
    \E m \in Markets : \E market \in UpsertArgs(m) :
        Upsert(market) /\ UNCHANGED exceptUpsert

SpecUpsert == InitUpsert /\ [][NextUpsert]_vars

(* The domain of the most recent call that carried one, Null if none did.  *)
RECURSIVE LastDomain(_)
LastDomain(calls) ==
    IF calls = <<>> THEN Null
    ELSE IF calls[Len(calls)].domain # Null THEN calls[Len(calls)].domain
    ELSE LastDomain(SubSeq(calls, 1, Len(calls) - 1))

(* C30: after any sequence of upsert_market calls on one id the row's      *)
(* market_price is the last call's price and its domain is the domain of   *)
(* the most recent call with a non-null domain; a domain once set never    *)
(* becomes null again.                                                     *)
C30_LastPriceStickyDomain ==
    /\ [](\A m \in Markets :
            upCalls[m] # <<>> =>
                /\ markets[m].market_price =
                       upCalls[m][Len(upCalls[m])].market_price
                /\ markets[m].domain = LastDomain(upCalls[m]))
    /\ [][\A m \in Markets :
            markets[m].domain # Null => markets'[m].domain # Null]_vars

C30_Witness ==
    /\ Len(upCalls["m1"]) = 3
    /\ upCalls["m1"][1].domain = "politics"
    /\ upCalls["m1"][2].domain = "sports"
    /\ upCalls["m1"][3].domain = Null
    /\ upCalls["m1"][3].market_price = R(3, 4)
    /\ markets["m1"].domain = "sports"
    /\ markets["m1"].market_price = R(3, 4)

-----------------------------------------------------------------------------
(* Scans of the two venues over an empty markets table.                    *)

InitScan ==
    /\ SchedQuiet /\ ResQuiet /\ SelQuiet /\ PipeQuiet /\ EnsQuiet /\ PromptQuiet /\ TradeQuiet
    /\ FrQuiet /\ SemQuiet /\ CalQuiet /\ AdaptQuiet /\ SizeQuiet
    /\ StoreQuiet /\ UpsertQuiet
    /\ PickQuiet
    /\ RoundQuiet
    /\ RlQuiet
    /\ SeedQuiet
    /\ FcQuiet
    /\ UnitQuiet
    /\ RefreshQuiet
    /\ CalRowsQuiet
    /\ scanStore = [id \in ScanIds |-> NoMarketRow]
    /\ dsScore \in [PolyIds \X KalshiIds -> ScoreValues]
    /\ ds = DsIdle
    /\ dsScans = 0

NextScan ==
    \/ \E poly_listed \in SUBSET PolyIds, kalshi_listed \in SUBSET KalshiIds :
          DsStart(poly_listed, kalshi_listed) /\ UNCHANGED exceptDedup
    \/ DsUpsert /\ UNCHANGED exceptDedup
    \/ DsReturn /\ UNCHANGED exceptDedup
    \/ DsAgain /\ UNCHANGED exceptDedup

SpecScan == InitScan /\ [][NextScan]_vars

ScannedIds == {ds.all_markets[i] : i \in 1..Len(ds.all_markets)}

(* C25: when a scan has returned, dedup_group(a) = b implies               *)
(* dedup_group(b) = a for all markets a and b of that scan.                *)
C25_DedupBidirectional ==
    ds.pc = "returned" =>
        \A a \in ScannedIds, b \in ScannedIds :
            scanStore[a].dedup_group = b => scanStore[b].dedup_group = a

(* C24: a model whose response carries no parseable probability has no     *)
(* entry among the forecasts handed to the ensemble and no Forecast row.   *)
C24_UnparsedResponseDropped ==
    \A m \in Models :
        ensText[m].kind = "prose" =>
            /\ \A i \in 1..Len(ensForecasts) : ensForecasts[i].model # m
            /\ \A i \in 1..Len(ensRows) : ensRows[i].model # m

-----------------------------------------------------------------------------
(* Prompt selection over the tables the tournament can leave, and over   *)
(* the empty table of a process that calls _process_market without         *)
(* load_state (run.py paper_run, lines 72-93).                             *)

EmptyPromptTable == [v \in Versions |-> NoRow]

(* The seeded variants are global; the first two evolved variants belong   *)
(* to a domain; retired or not. A table with rows keeps an active one (a   *)
(* round never retires its best variant).                                  *)
PickTables ==
    {EmptyPromptTable}
    \cup {t \in [Versions -> {NoRow} \cup [domain : Domains \cup {NullDomain},
                                           active : {0, 1}]] :
             /\ \A v \in SeedVersions : t[v] # NoRow /\ t[v].domain = NullDomain
             /\ \A v \in EvolvedVersions :
                    t[v] # NoRow =>
                        /\ t[v].domain # NullDomain
                        /\ v \in {EvolvedOrder[1], EvolvedOrder[2]}
             /\ \E v \in Versions : t[v].active = 1}

InitPick ==
    /\ SchedQuiet /\ ResQuiet /\ SelQuiet /\ PipeQuiet /\ EnsQuiet /\ TradeQuiet
    /\ FrQuiet /\ SemQuiet /\ CalQuiet /\ AdaptQuiet /\ SizeQuiet
    /\ StoreQuiet /\ UpsertQuiet /\ DedupQuiet
    /\ RoundQuiet
    /\ RlQuiet
    /\ SeedQuiet
    /\ FcQuiet
    /\ UnitQuiet
    /\ RefreshQuiet
    /\ CalRowsQuiet
    /\ promptTable \in PickTables
    /\ promptPc = "idle"
    /\ promptDomain = NullDomain
    /\ promptRounds = 0
    /\ pick = PickIdle

NextPick ==
    \/ \E domain \in Domains, chosen \in Versions :
            PickFromDomain(domain, chosen) /\ UNCHANGED exceptPick
    \/ \E domain \in Domains : PickNothing(domain) /\ UNCHANGED exceptPick
    \/ \E chosen \in Versions : PickFromGlobal(chosen) /\ UNCHANGED exceptPick
    \/ PickBuiltIn /\ UNCHANGED exceptPick
    \/ PickAgain /\ UNCHANGED exceptPick

SpecPick == InitPick /\ [][NextPick]_vars

ActiveWithDomain(d) ==
    {v \in Versions : promptTable[v].active = 1 /\ promptTable[v].domain = d}

(* C26: at the step where get_active_prompt(d), d not null, returns: if an *)
(* active variant of domain d exists the returned variant has domain d; a  *)
(* returned null-domain variant means d has no active variant of its own;  *)
(* the built-in v1-baseline means no active variant exists at all.         *)
C26_OwnDomainFirst ==
    [][(pick.pc # "returned" /\ pick'.pc = "returned") =>
          LET d == pick'.domain
              v == pick'.version
          IN  /\ ActiveWithDomain(d) # {} =>
                    (v # BuiltIn /\ promptTable[v].domain = d)
              /\ (v # BuiltIn /\ promptTable[v].domain = NullDomain) =>
                    ActiveWithDomain(d) = {}
              /\ v = BuiltIn =>
                    \A w \in Versions : promptTable[w].active # 1]_vars

-----------------------------------------------------------------------------
(* Tournament rounds with their inputs remembered.                         *)

InitTournament ==
    /\ SchedQuiet /\ ResQuiet /\ SelQuiet /\ PipeQuiet /\ EnsQuiet /\ PromptQuiet /\ TradeQuiet
    /\ FrQuiet /\ SemQuiet /\ CalQuiet /\ AdaptQuiet /\ SizeQuiet
    /\ StoreQuiet /\ UpsertQuiet /\ DedupQuiet /\ PickQuiet
    /\ RlQuiet
    /\ SeedQuiet
    /\ FcQuiet
    /\ UnitQuiet
    /\ RefreshQuiet
    /\ CalRowsQuiet
    /\ rd = NoRound

NextTournament ==
    \/ \E domain \in Domains \cup {NullDomain} :
         \E stats \in [get_active_prompts(promptTable, domain) -> TournamentStats] :
            TnEvaluate(domain, stats) /\ UNCHANGED exceptRound
    \/ \E evolved \in EvolverAnswers(promptTable) :
            TnGenerate(evolved) /\ UNCHANGED exceptRound

SpecTournament == InitTournament /\ [][NextTournament]_vars

RoundVariants == {v \in Versions : rd.stats[v] # NoStat}
RoundEvaluated == {v \in RoundVariants : rd.stats[v].n >= PROMPT_TOURNAMENT_MIN_TRIALS}

(* C27: when a round has ended, a variant of the round is inactive iff it  *)
(* had at least PROMPT_TOURNAMENT_MIN_TRIALS samples and its mean Brier    *)
(* exceeds the least mean among the evaluated variants by more than        *)
(* RETIRE_BRIER_GAP.                                                       *)
C27_RetiredIffBeyondGap ==
    rd.ended =>
        \A v \in RoundVariants :
            promptTable[v].active = 0 <=>
                /\ v \in RoundEvaluated
                /\ RLt(RETIRE_BRIER_GAP,
                       RSub(rd.stats[v].mean, BestBrier(rd.stats, RoundEvaluated)))

-----------------------------------------------------------------------------
(* Kalshi requests of one price refresh.                                   *)

InitRateLimit ==
    /\ SchedQuiet /\ ResQuiet /\ SelQuiet /\ PipeQuiet /\ EnsQuiet /\ PromptQuiet /\ TradeQuiet
    /\ FrQuiet /\ SemQuiet /\ CalQuiet /\ AdaptQuiet /\ SizeQuiet
    /\ StoreQuiet /\ UpsertQuiet /\ DedupQuiet /\ PickQuiet /\ RoundQuiet
    /\ SeedQuiet
    /\ FcQuiet
    /\ UnitQuiet
    /\ RefreshQuiet
    /\ CalRowsQuiet
    /\ rlClock \in 0 .. _min_interval
    /\ _last_request = 0
    /\ rlPc = [u \in Updates |-> "idle"]
    /\ rlWake = [u \in Updates |-> 0]
    /\ rlSent = <<>>

NextRateLimit ==
    \/ RlTick /\ UNCHANGED exceptRl
    \/ \E u \in Updates : RlEnter(u) /\ UNCHANGED exceptRl
    \/ \E u \in Updates : RlWakeUp(u) /\ UNCHANGED exceptRl

SpecRateLimit == InitRateLimit /\ [][NextRateLimit]_vars

(* C28: any two requests of one Kalshi client are at least                 *)
(* 1/KALSHI_RATE_LIMIT_RPS of monotonic time apart, concurrent callers     *)
(* included.                                                               *)
C28_RequestsSeparated ==
    \A i, j \in 1 .. Len(rlSent) :
        i < j => rlSent[j] - rlSent[i] >= _min_interval

-----------------------------------------------------------------------------
(* Process starts on a database that is empty at first, and tournament     *)
(* rounds between them.                                                    *)

InitSeed ==
    /\ SchedQuiet /\ ResQuiet /\ SelQuiet /\ PipeQuiet /\ EnsQuiet /\ TradeQuiet
    /\ FrQuiet /\ SemQuiet /\ CalQuiet /\ AdaptQuiet /\ SizeQuiet
    /\ StoreQuiet /\ UpsertQuiet /\ DedupQuiet /\ PickQuiet /\ RoundQuiet
    /\ RlQuiet /\ SeedQuiet
    /\ FcQuiet
    /\ UnitQuiet
    /\ RefreshQuiet
    /\ CalRowsQuiet
    /\ promptTable = EmptyPromptTable
    /\ promptPc = "idle"
    /\ promptDomain = NullDomain
    /\ promptRounds = 0

NextSeed ==
    \/ seed_initial_prompts /\ UNCHANGED exceptSeed
    \/ \E domain \in Domains \cup {NullDomain} :
         \E stats \in [get_active_prompts(promptTable, domain) -> VariantStats] :
            SdEvaluate(domain, stats) /\ UNCHANGED exceptSeed
    \/ \E evolved \in EvolverAnswers(promptTable) :
            SdGenerate(evolved) /\ UNCHANGED exceptSeed

SpecSeed == InitSeed /\ [][NextSeed]_vars

TableNonEmpty == \E v \in Versions : promptTable[v] # NoRow

(* C31: a seed_initial_prompts call on a non-empty prompt_experiments      *)
(* table changes no row: no variant is added or reactivated and no         *)
(* n_trials, n_wins or mean_brier is reset.                                *)
C31_SeedIdempotent ==
    [][(sdCalls' # sdCalls /\ TableNonEmpty)
          => (promptTable' = promptTable /\ expStats' = expStats)]_vars

(* A second process start after a round that wrote statistics and retired  *)
(* a variant.                                                              *)
C31_Witness ==
    /\ sdCalls >= 2
    /\ \E v \in SeedVersions : promptTable[v].active = 0
    /\ \E v \in SeedVersions : expStats[v].n_trials >= PROMPT_TOURNAMENT_MIN_TRIALS

-----------------------------------------------------------------------------
(* The range of kelly_fraction.                                            *)

(* Edges from -0.2 to 1.2 in steps of 0.05: an edge is a difference of     *)
(* probabilities, and kelly_fraction itself accepts any number.            *)
EdgeGrid == {R(k, 20) : k \in (0 - 4) .. 24}

FractionInRange(f) == RLe(Zero, f) /\ RLe(f, MAX_POSITION_PCT)

KellyInRangeOnGrid ==
    \A edge \in EdgeGrid, market_price \in SizingGrid, side \in {"YES", "NO"} :
        FractionInRange(kelly_fraction(edge, market_price, side))

(* C32: for every edge, market price in [0,1] and side, kelly_fraction     *)
(* returns f with 0 <= f <= MAX_POSITION_PCT, and the kelly_fraction of    *)
(* every Trade row lies in that range.                                     *)
C32_KellyInRange ==
    /\ KellyInRangeOnGrid
    /\ \A i \in 1..Len(trades) : FractionInRange(trades[i].kelly_fraction)

(* A Trade row whose fraction the cap decided, and one it did not.         *)
C32_Witness ==
    /\ \E i \in 1..Len(trades) : trades[i].kelly_fraction = MAX_POSITION_PCT
    /\ \E i \in 1..Len(trades) : RLt(trades[i].kelly_fraction, MAX_POSITION_PCT)

-----------------------------------------------------------------------------
(* check_resolutions, scan_markets and run_forecasts on one markets table. *)

InitMarketRows ==
    /\ InitTracker
    /\ forecastRows = <<[market_id |-> "m1", raw_probability |-> R(3, 10)],
                        [market_id |-> "m1", raw_probability |-> Absent],
                        [market_id |-> "m2", raw_probability |-> R(2, 5)]>>

NextMarketRows ==
    \/ NextTracker
    \/ FcList /\ UNCHANGED exceptFc
    \/ \E domain \in ClassifiedDomains : FcClassify(domain) /\ UNCHANGED exceptFc
    \/ FcClassified /\ UNCHANGED exceptFc

SpecMarketRows == InitMarketRows /\ [][NextMarketRows]_vars

StaysResolved(m) ==
    (markets[m].resolved = 1 /\ markets[m].outcome # NoOutcome)
        => (markets'[m].resolved = 1 /\ markets'[m].outcome # NoOutcome)

(* C33: a market the tracker has marked resolved (resolved = 1 with its    *)
(* outcome) never returns to resolved = 0 or to a null outcome, whatever   *)
(* scan_markets, run_forecasts and check_resolutions do.                   *)
C33_ResolvedIsFinal == [][\A m \in Markets : StaysResolved(m)]_vars

-----------------------------------------------------------------------------
(* C34: in every Store state the number of open positions (distinct        *)
(* unresolved markets with at least one Trade row) is at most              *)
(* MAX_OPEN_POSITIONS.                                                     *)
C34_OpenPositionsBounded == count_open_positions <= MAX_OPEN_POSITIONS

-----------------------------------------------------------------------------
(* One maybe_trade per price, probability and cash balance.                *)

InitUnits ==
    /\ SchedQuiet /\ ResQuiet /\ SelQuiet /\ PipeQuiet /\ EnsQuiet /\ PromptQuiet /\ TradeQuiet
    /\ FrQuiet /\ SemQuiet /\ CalQuiet /\ AdaptQuiet
    /\ StoreQuiet /\ UpsertQuiet /\ DedupQuiet /\ PickQuiet /\ RoundQuiet
    /\ RlQuiet /\ SeedQuiet /\ FcQuiet
    /\ RefreshQuiet
    /\ CalRowsQuiet
    /\ szPrice \in SizingGrid
    /\ szProb \in SizingGrid
    /\ szOut = NoSizing
    /\ unCash \in CashValues
    /\ unOut = NoUnits

NextUnits ==
    \/ UnNoTrade /\ UNCHANGED exceptUnit
    \/ UnTrade /\ UNCHANGED exceptUnit

SpecUnits == InitUnits /\ [][NextUnits]_vars

(* C39: the cost size_units * price of an executed trade is at most        *)
(* MAX_POSITION_PCT times the cash that was available when it was sized.   *)
C39_CostWithinCap ==
    unOut.executed => RLe(unOut.cost, RMul(MAX_POSITION_PCT, unCash))

-----------------------------------------------------------------------------
(* Price refreshes of two stored markets.                                  *)

InitRefresh ==
    /\ SchedQuiet /\ ResQuiet /\ SelQuiet /\ PipeQuiet /\ EnsQuiet /\ PromptQuiet /\ TradeQuiet
    /\ FrQuiet /\ SemQuiet /\ CalQuiet /\ AdaptQuiet /\ SizeQuiet
    /\ UpsertQuiet /\ DedupQuiet /\ PickQuiet /\ RoundQuiet
    /\ RlQuiet /\ SeedQuiet /\ FcQuiet /\ UnitQuiet /\ RefreshQuiet
    /\ CalRowsQuiet
    /\ \E prices \in [Markets -> StoredPrices] :
          markets = [m \in Markets |-> ListedMarket(m, prices[m], Null, Null)]
    /\ forecastRows = <<>>
    /\ outcomes = <<>>
    /\ venue = [m \in Markets |-> OpenAtVenue]
    /\ trk = TrkIdle
    /\ trkCounted = 0
    /\ trkRuns = 0
    /\ trkDropped = {}
    /\ scanPending = {}

NextRefresh ==
    \/ RfStart /\ UNCHANGED exceptRefresh
    \/ \E m \in Markets, fetched \in VenuePrices \cup {FetchFails} :
          RfUpdate(m, fetched) /\ UNCHANGED exceptRefresh

SpecRefresh == InitRefresh /\ [][NextRefresh]_vars

(* C35: a market whose venue price fetch failed during the refresh keeps   *)
(* the market_price it had; no substitute price is written.                *)
C35_FailedFetchKeepsPrice ==
    \A m \in rfFailed : markets[m].market_price = rfBefore[m]

-----------------------------------------------------------------------------
(* Successive model-selection runs beside the forecast pipeline.           *)

NextWeights ==
    \/ \E stats \in [Models -> WindowStats] :
          WtStart(stats) /\ UNCHANGED exceptSel
    \/ SelScore /\ UNCHANGED exceptSel
    \/ SelPersist /\ UNCHANGED exceptSel
    \/ SelEnd /\ UNCHANGED exceptSel
    \/ PipeStart /\ UNCHANGED exceptPipe
    \/ PipeLoadWeights /\ UNCHANGED exceptPipe
    \/ \E fc \in {{}, pipeActive} : PipeForecast(fc) /\ UNCHANGED exceptPipe
    \/ PipeStore /\ UNCHANGED exceptPipe
    \/ PipeEnd /\ UNCHANGED exceptPipe

SpecWeights == InitSelect /\ [][NextWeights]_vars

FirstRunCompleted == selRuns >= 2 \/ (selRuns = 1 /\ selPc = "idle")

(* C36: once a first model-selection run has completed, the weights a      *)
(* forecast pipeline loads have positive entries that sum to 1 (or no      *)
(* positive entry at all, every model being killed), also while a later    *)
(* run is writing.                                                         *)
C36_LoadedWeightsNormalised ==
    [][(FirstRunCompleted /\ pipePc = "started" /\ pipePc' = "loaded")
          => SumPositive(get_current_weights, Models) \in {Zero, One}]_vars

(* C38: the stored weight 0 of a roster model stays 0 as long as the       *)
(* selection runs find no outcomes of the model in their window.           *)
C38_KilledStaysKilled ==
    [][\A m \in Models :
          (mwStore[m] = Zero /\ (selPc = "idle" \/ selStats[m] = NoSamples))
              => mwStore'[m] = Zero]_vars

(* A second run has ended in which a killed model had no outcomes, while   *)
(* the other models were scored and normalised.                            *)
C38_Witness ==
    /\ selRuns = 2
    /\ selPc = "done"
    /\ \E m \in Models : selStats[m] = NoSamples /\ mwStore[m] = Zero
    /\ \E m \in Models : selStats[m] # NoSamples /\ RLt(Zero, mwStore[m])

-----------------------------------------------------------------------------
(* run_calibration run after run on a table that earlier runs and          *)
(* adaptations left.                                                       *)

InitCalRows ==
    /\ SchedQuiet /\ ResQuiet /\ SelQuiet /\ PipeQuiet /\ EnsQuiet /\ PromptQuiet /\ TradeQuiet
    /\ FrQuiet /\ SemQuiet /\ AdaptQuiet /\ SizeQuiet /\ StoreQuiet
    /\ UpsertQuiet /\ DedupQuiet /\ PickQuiet /\ RoundQuiet
    /\ RlQuiet /\ SeedQuiet /\ FcQuiet /\ UnitQuiet /\ RefreshQuiet
    /\ calibration_state \in CalTablesAtStart
    /\ calPc = [pc |-> "idle", done |-> {}]
    /\ calRun = [NoCalRun EXCEPT !.before = calibration_state]
    /\ calLatest = [m \in Models |-> WrittenBy(calibration_state[m])]

NextCalRows ==
    \/ \E groups \in [Models -> GroupLists] :
          CrStart(groups) /\ UNCHANGED exceptCalRows
    \/ \E model \in Models : CrGroup(model) /\ UNCHANGED exceptCalRows
    \/ CrReturn /\ UNCHANGED exceptCalRows
    \/ CalAgain /\ UNCHANGED exceptCal

SpecCalRows == InitCalRows /\ [][NextCalRows]_vars

(* C40: when a run_calibration has returned, every group of the run with   *)
(* at least 3 outcomes has its row with the group's mean Brier and the     *)
(* weight of that mean, whatever the total number of outcomes; the row of  *)
(* a group with fewer than 3 is as the run found it; and no row's          *)
(* entropy_threshold has changed.                                          *)
C40_EveryFullGroupUpserted ==
    calPc.pc = "returned" =>
        \A m \in Models :
            LET briers == calRun.groups[m]
                row == calibration_state[m]
            IN  /\ IF Len(briers) >= 3
                   THEN /\ row.present
                        /\ row.brier = MeanOf(briers)
                        /\ row.weight = _brier_to_weight(MeanOf(briers))
                   ELSE row = calRun.before[m]
                /\ row.tau = calRun.before[m].tau

(* Pairs that lower the threshold (separation 0.3), that keep it           *)
(* (separation 0.067), and too few pairs to adapt.                         *)
AdaptPoints ==
    {[lc |-> 6, lw |-> 4, hc |-> 3, hw |-> 7],
     [lc |-> 6, lw |-> 4, hc |-> 8, hw |-> 7],
     [lc |-> 0, lw |-> 4, hc |-> 3, hw |-> 7]}

(* run_calibration beside the run_threshold_adaptation of another job;     *)
(* every group of the run is empty or has five scores.                     *)
NextCalAdapt ==
    \/ \E groups \in [Models -> {<<>>, FiveScores}] :
          CrStart(groups) /\ UNCHANGED exceptCalRows
    \/ \E model \in Models : CrGroup(model) /\ UNCHANGED exceptCalRows
    \/ CrReturn /\ UNCHANGED exceptCalRows
    \/ CalAgain /\ UNCHANGED exceptCal
    \/ \E points \in AdaptPoints :
          AdRead("incremental", points) /\ UNCHANGED exceptCal
    \/ AdGetState("incremental") /\ UNCHANGED exceptCal
    \/ AdUpsert("incremental") /\ UNCHANGED exceptCal

SpecCalAdapt == InitCalRows /\ [][NextCalAdapt]_vars

(* C37: run_threshold_adaptation changes only entropy_threshold: the       *)
(* brier_score and domain_weight of every calibration row are the latest   *)
(* values run_calibration wrote, also when a run_calibration of another    *)
(* job writes between the adaptation's read of a row and its write.        *)
C37_AdaptationKeepsCalibration ==
    \A m \in Models : calibration_state[m].present =>
        WrittenBy(calibration_state[m]) = calLatest[m]

=============================================================================
